---- MODULE Spec2Model ----
(***************************************************************************)
(* Turn loop of GeminiAgent (agent.ts), the tool invocation wrapper        *)
(* (tool.ts) and session resume (session.ts) of gemini-cli-sdk.            *)
(*                                                                         *)
(* One agent instance is modelled.  Its public operations are sendStream   *)
(* (an async generator: it runs only while the caller pulls it, and is     *)
(* suspended at every yield) and listSessions.  The collaborators of       *)
(* @google/gemini-cli-core (Config, GeminiClient, scheduleAgentTools) are  *)
(* modelled at their call sites: each call either returns or raises.       *)
(***************************************************************************)
EXTENDS Integers, Sequences, FiniteSets, TLC

(***************************************************************************)
(* Bounds of the model.                                                    *)
(***************************************************************************)
MaxSends == 2
MaxStreams == 3
MaxEvents == 2
MaxLists == 1

(***************************************************************************)
(* Tool definitions supplied to the constructor (GeminiAgentOptions.tools). *)
(* save_note leaves sendErrorsToModel unset, lookup sets it.               *)
(***************************************************************************)
Tools == {"save_note", "lookup"}

ToolDefs ==
  [t \in Tools |->
     IF t = "lookup"
       THEN [name |-> t, sendErrorsToModel |-> "true"]
       ELSE [name |-> t, sendErrorsToModel |-> "unset"]]

\* this.def.sendErrorsToModel ?? false
SendErrorsToModel(def) == def.sendErrorsToModel = "true"

(***************************************************************************)
(* What a tool action can do: return a value or throw.                     *)
(***************************************************************************)
Outcomes ==
  { [kind |-> "return", cls |-> "string",    text |-> "saved"],
    [kind |-> "throw",  cls |-> "Error",     text |-> "boom"],
    [kind |-> "throw",  cls |-> "ToolError", text |-> "retry"] }

\* What else an action may resolve to (Promise<unknown>): a number, null, an
\* object, nothing at all, or a value JSON.stringify cannot walk
ReturnValues ==
  Outcomes \cup
  { [kind |-> "return", cls |-> "string",    text |-> ""],
    [kind |-> "return", cls |-> "number",    text |-> "42"],
    [kind |-> "return", cls |-> "null",      text |-> ""],
    [kind |-> "return", cls |-> "object",    text |-> "ok"],
    [kind |-> "return", cls |-> "undefined", text |-> ""],
    [kind |-> "return", cls |-> "cyclic",    text |-> ""] }

\* JSON.stringify(value, null, 2) of a value that is no string: the text of
\* a number, null, or an object with its one member on a line of its own.
\* For undefined it returns undefined, not a text.
JSONStringifyIndented(value) ==
  IF value.cls = "number" THEN value.text
  ELSE IF value.cls = "null" THEN "null"
  ELSE IF value.cls = "object" THEN "{\n  \"" \o value.text \o "\": true\n}"
  ELSE ""

\* JSON.stringify raises a TypeError on a circular structure
SerializeThrows(value) == value.cls = "cyclic"
SerializeError ==
  [kind |-> "throw", cls |-> "TypeError",
   text |-> "Converting circular structure to JSON"]

\* SdkToolInvocation.serialize: strings verbatim, anything else JSON text
serialize(value) ==
  IF value.cls = "string" THEN value.text ELSE JSONStringifyIndented(value)

\* typeof of what serialize returned
TypeofOutput(value) ==
  IF value.cls = "undefined" THEN "undefined" ELSE "string"

\* error instanceof ToolError
IsToolError(error) == error.cls = "ToolError"

\* error instanceof Error ? error.message : String(error)
ErrorMessage(error) == error.text

\* faulty variant: only the flag converts, a ToolError is rethrown like any error
Converts_FlagOnly(def, error) == SendErrorsToModel(def)

\* this.sendErrorsToModel || error instanceof ToolError
Converts(def, error) == SendErrorsToModel(def) \/ IsToolError(error)

ErrorResult(message) ==
  [tag |-> "result", llmContent |-> "Error: " \o message,
   returnDisplay |-> "Error: " \o message, typeofOutput |-> "string",
   error |-> message]

\* what the try block of execute raises, if anything: the error of the
\* action, or that of serialize
Returns(o) == o.kind = "return" /\ ~SerializeThrows(o)
Caught(o) == IF o.kind = "throw" THEN o ELSE SerializeError

\* { llmContent: output, returnDisplay: output }
ToolResult(o) ==
  [tag |-> "result", llmContent |-> serialize(o),
   returnDisplay |-> serialize(o), typeofOutput |-> TypeofOutput(o),
   error |-> "none"]

\* SdkToolInvocation.execute: the ToolResult, or the rethrown error
\* faulty variant: every thrown error is converted, whatever the flag
Execute_CatchAll(def, o) ==
  IF Returns(o) THEN ToolResult(o)
  ELSE ErrorResult(ErrorMessage(Caught(o)))
Execute(def, o) ==
  IF Returns(o) THEN ToolResult(o)
  ELSE IF Converts(def, Caught(o))
    THEN ErrorResult(ErrorMessage(Caught(o)))
    ELSE [tag |-> "throw", llmContent |-> "", returnDisplay |-> "",
          typeofOutput |-> "-", error |-> ErrorMessage(Caught(o))]

(***************************************************************************)
(* Stream events (ServerGeminiStreamEvent).  id is the payload the backend *)
(* generated (for a tool-call request, its callId), rnd the round whose    *)
(* stream delivered it.                                                    *)
(***************************************************************************)
ObjArgs == [enc |-> "object", v |-> "X"]
StrArgs == [enc |-> "string", v |-> "X"]
BadArgs == [enc |-> "string", v |-> "{"]

EventChoices ==
  { [type |-> "Content",         name |-> "-",         args |-> ObjArgs],
    [type |-> "ChatCompressed",  name |-> "-",         args |-> ObjArgs],
    [type |-> "ToolCallRequest", name |-> "save_note", args |-> ObjArgs],
    [type |-> "ToolCallRequest", name |-> "save_note", args |-> BadArgs],
    [type |-> "ToolCallRequest", name |-> "lookup",    args |-> StrArgs],
    [type |-> "ToolCallRequest", name |-> "writer",    args |-> ObjArgs] }

MkEvent(c, id, rnd) ==
  [id |-> id, rnd |-> rnd, type |-> c.type, name |-> c.name, args |-> c.args]

\* JSON.parse(toolCall.args) raises on text that is no JSON
JSONParseThrows(args) == args.enc = "string" /\ args.v = "{"
JSONParse(args) == [enc |-> "object", v |-> args.v]

IsToolCallRequest(e) == e.type = "ToolCallRequest"

\* extractToolCalls raises when the arguments of some request do not decode
ExtractThrows(events) ==
  \E i \in 1..Len(events) :
    IsToolCallRequest(events[i]) /\ JSONParseThrows(events[i].args)

\* faulty variant: the arguments are passed on as they arrived
RECURSIVE extractToolCalls_RawArgs(_, _)
extractToolCalls_RawArgs(events, sessionId) ==
  IF events = <<>> THEN <<>>
  ELSE LET e == Head(events)
           rest == extractToolCalls_RawArgs(Tail(events), sessionId)
       IN IF IsToolCallRequest(e)
            THEN << [callId |-> e.id, name |-> e.name, args |-> e.args,
                     isClientInitiated |-> FALSE,
                     prompt_id |-> sessionId] >> \o rest
            ELSE rest

RECURSIVE extractToolCalls(_, _)
extractToolCalls(events, sessionId) ==
  IF events = <<>> THEN <<>>
  ELSE LET e == Head(events)
           rest == extractToolCalls(Tail(events), sessionId)
       IN IF IsToolCallRequest(e)
            THEN << [callId |-> e.id, name |-> e.name,
                     args |-> IF e.args.enc = "string"
                                THEN JSONParse(e.args) ELSE e.args,
                     isClientInitiated |-> FALSE,
                     prompt_id |-> sessionId] >> \o rest
            ELSE rest

\* completedCalls.flatMap((call) => call.response.responseParts)
RECURSIVE FlatMapResponseParts(_)
FlatMapResponseParts(completedCalls) ==
  IF completedCalls = <<>> THEN <<>>
  ELSE Head(completedCalls).responseParts
         \o FlatMapResponseParts(Tail(completedCalls))

\* The completion the scheduler builds from a ToolResult
Completion(call, result) ==
  [callId |-> call.callId, name |-> call.name,
   responseParts |->
     << [functionResponse |->
           [id |-> call.callId, name |-> call.name,
            output |-> result.llmContent, error |-> result.error]] >>]

(***************************************************************************)
(* Persisted session records (session.ts).                                 *)
(***************************************************************************)
\* A JSON value of a record: k is its kind, v its text, items its elements
\* when it is an array.  Falsy is the empty string (or a missing value).
Falsy == [k |-> "falsy", v |-> "", items |-> <<>>]
Null == [k |-> "null", v |-> "", items |-> <<>>]
Str(s) == [k |-> "string", v |-> s, items |-> <<>>]
Part(name) == [k |-> "object", v |-> name, items |-> <<>>]
Arr(items) == [k |-> "array", v |-> "", items |-> items]

\* a functionResponse part answering the call of the given id
Resp(id) == [k |-> "response", v |-> id, items |-> <<>>]

\* content as Part: an object is taken as the part it is
AsPart(content) ==
  IF content.k = "response"
    THEN [functionResponse |-> [id |-> content.v]]
    ELSE [inlineData |-> content.v]

\* faulty variant: the array case is missing, an array is taken as one part
normalizeParts_NoArray(content) ==
  IF content.k \in {"falsy", "null"} THEN <<>>
  ELSE IF content.k = "string" THEN << [text |-> content.v] >>
  ELSE << AsPart(content) >>

\* faulty variant: the elements of an array are taken as they are, a string
\* among them is not made a text part
normalizeParts_RawItems(content) ==
  IF content.k \in {"falsy", "null"} THEN <<>>
  ELSE IF content.k = "string" THEN << [text |-> content.v] >>
  ELSE IF content.k = "array"
    THEN [i \in 1..Len(content.items) |-> AsPart(content.items[i])]
  ELSE << AsPart(content) >>

\* normalizeParts
normalizeParts(content) ==
  IF content.k \in {"falsy", "null"} THEN <<>>
  ELSE IF content.k = "string" THEN << [text |-> content.v] >>
  ELSE IF content.k = "array"
    THEN [i \in 1..Len(content.items) |->
            IF content.items[i].k = "string"
              THEN [text |-> content.items[i].v]
              ELSE AsPart(content.items[i])]
  ELSE << AsPart(content) >>

FunctionCallParts(toolCalls) ==
  [i \in 1..Len(toolCalls) |->
     [functionCall |-> [id |-> toolCalls[i].id, name |-> toolCalls[i].name,
                        args |-> toolCalls[i].args]]]

\* faulty variant: only the first tool call with a result is answered
RECURSIVE ResponseParts_FirstOnly(_)
ResponseParts_FirstOnly(toolCalls) ==
  IF toolCalls = <<>> THEN <<>>
  ELSE IF Head(toolCalls).result.k # "null"
    THEN normalizeParts(Head(toolCalls).result)
    ELSE ResponseParts_FirstOnly(Tail(toolCalls))

RECURSIVE ResponseParts(_)
ResponseParts(toolCalls) ==
  IF toolCalls = <<>> THEN <<>>
  ELSE (IF Head(toolCalls).result.k # "null"
          THEN normalizeParts(Head(toolCalls).result) ELSE <<>>)
       \o ResponseParts(Tail(toolCalls))

\* faulty variant: the tool calls come before the content
ModelParts_CallsFirst(msg) ==
  FunctionCallParts(msg.toolCalls) \o normalizeParts(msg.content)

\* modelParts: the content parts, then a functionCall part per tool call
ModelParts(msg) ==
  normalizeParts(msg.content) \o FunctionCallParts(msg.toolCalls)

\* the turns a user or gemini entry pushes
EntryTurns(msg) ==
  LET parts == normalizeParts(msg.content)
      modelParts == ModelParts(msg)
      responseParts == ResponseParts(msg.toolCalls)
  IN IF msg.type = "user"
       THEN (IF Len(parts) > 0
               THEN << [role |-> "user", parts |-> parts] >> ELSE <<>>)
     ELSE IF msg.type = "gemini"
       THEN (IF Len(modelParts) > 0
               THEN << [role |-> "model", parts |-> modelParts] >>
               ELSE <<>>)
            \o (IF Len(responseParts) > 0
                  THEN << [role |-> "user", parts |-> responseParts] >>
                  ELSE <<>>)
     ELSE <<>>

\* msg.type === "info" || msg.type === "error" || msg.type === "warning"
IsAnnotation(msg) == msg.type \in {"info", "error", "warning"}

\* faulty variant: an error entry is replayed as a user turn
TurnsOf_ReplayErrors(msg) ==
  IF msg.type \in {"info", "warning"} THEN <<>>
  ELSE IF msg.type = "error"
    THEN << [role |-> "user", parts |-> normalizeParts(msg.content)] >>
  ELSE EntryTurns(msg)

\* the body of the loop of messageRecordsToHistory: what one entry pushes
TurnsOf(msg) == IF IsAnnotation(msg) THEN <<>> ELSE EntryTurns(msg)

\* messageRecordsToHistory
RECURSIVE messageRecordsToHistory(_)
messageRecordsToHistory(messages) ==
  IF messages = <<>> THEN <<>>
  ELSE TurnsOf(Head(messages)) \o messageRecordsToHistory(Tail(messages))

\* Writing turns back as persisted entries (spec.md, Conversation Entry): a
\* user turn is a user entry whose content is the sequence of its parts, a
\* text part written as a bare string; a model turn is a gemini entry whose
\* content holds the parts that are no function call and whose toolCalls
\* hold one record per function-call part.
IsCallPart(p) == "functionCall" \in DOMAIN p

EncodePart(p) ==
  IF "text" \in DOMAIN p THEN Str(p.text)
  ELSE IF "functionResponse" \in DOMAIN p THEN Resp(p.functionResponse.id)
  ELSE Part(p.inlineData)

EncodeParts(parts) == Arr([i \in 1..Len(parts) |-> EncodePart(parts[i])])

\* The parts of a response turn carry no call id: when the results are
\* written onto the tool calls (asResults), they go onto the first call of
\* the model entry before them; otherwise the turn is written as a user entry.
EncodeCalls(calls, results) ==
  [i \in 1..Len(calls) |->
     [id |-> calls[i].functionCall.id, name |-> calls[i].functionCall.name,
      args |-> calls[i].functionCall.args,
      result |-> IF i = 1 THEN results ELSE Null]]

RECURSIVE encodeTurns(_, _)
encodeTurns(turns, asResults) ==
  IF turns = <<>> THEN <<>>
  ELSE LET t == Head(turns)
           rest == Tail(turns)
           calls == SelectSeq(t.parts, IsCallPart)
           content == SelectSeq(t.parts, LAMBDA p : ~IsCallPart(p))
           answered == /\ asResults
                       /\ t.role = "model"
                       /\ calls # <<>>
                       /\ rest # <<>>
                       /\ Head(rest).role = "user"
       IN IF t.role = "user"
            THEN << [type |-> "user", content |-> EncodeParts(t.parts),
                     toolCalls |-> <<>>] >>
                 \o encodeTurns(rest, asResults)
          ELSE << [type |-> "gemini", content |-> EncodeParts(content),
                   toolCalls |->
                     EncodeCalls(calls, IF answered
                                          THEN EncodeParts(Head(rest).parts)
                                          ELSE Null)] >>
               \o encodeTurns(IF answered THEN Tail(rest) ELSE rest,
                              asResults)

\* The chats directory of the project: one decodable record, one corrupt
\* file and one file that is no session record.  ord is the rank of the
\* file name in collation order; prefix and json tell whether the name
\* starts with SESSION_FILE_PREFIX and ends with ".json".
StoredMessages ==
  << [type |-> "user", content |-> Str("remember X"), toolCalls |-> <<>>],
     [type |-> "info", content |-> Str("note"), toolCalls |-> <<>>],
     [type |-> "gemini", content |-> Str("ok"),
      toolCalls |-> << [id |-> "c0", name |-> "save_note", args |-> ObjArgs,
                        result |-> Str("saved")] >>] >>

ChatsDir ==
  [exists |-> TRUE,
   files |->
     { [ord |-> 1, prefix |-> TRUE,  json |-> TRUE, decodes |-> TRUE,
        sessionId |-> "s1", messages |-> StoredMessages],
       [ord |-> 2, prefix |-> TRUE,  json |-> TRUE, decodes |-> FALSE,
        sessionId |-> "s2", messages |-> <<>>],
       [ord |-> 3, prefix |-> FALSE, json |-> TRUE, decodes |-> TRUE,
        sessionId |-> "s3", messages |-> <<>>] }]

\* f.startsWith(SESSION_FILE_PREFIX) && f.endsWith(".json")
IsSessionFile(f) == f.prefix /\ f.json

\* files sorted by descending name
RECURSIVE SortDesc(_)
SortDesc(files) ==
  IF files = {} THEN <<>>
  ELSE LET top == CHOOSE f \in files : \A g \in files : g.ord <= f.ord
       IN << top >> \o SortDesc(files \ {top})

\* the SessionInfo pushed for a file that decodes
SessionInfoOf(f) ==
  [sessionId |-> f.sessionId, filePath |-> f.ord,
   messageCount |-> Len(f.messages)]

\* faulty variant: the listing stops at the first file that fails to decode
RECURSIVE DecodeAll_StopAtCorrupt(_)
DecodeAll_StopAtCorrupt(sessionFiles) ==
  IF sessionFiles = <<>> THEN <<>>
  ELSE IF ~Head(sessionFiles).decodes THEN <<>>
  ELSE << SessionInfoOf(Head(sessionFiles)) >>
         \o DecodeAll_StopAtCorrupt(Tail(sessionFiles))

\* for (const file of sessionFiles) try { ... push } catch { skip }
RECURSIVE DecodeAll(_)
DecodeAll(sessionFiles) ==
  IF sessionFiles = <<>> THEN <<>>
  ELSE (IF Head(sessionFiles).decodes
          THEN << SessionInfoOf(Head(sessionFiles)) >> ELSE <<>>)
       \o DecodeAll(Tail(sessionFiles))

\* listSessions(config): [] when readdir fails, else a SessionInfo per
\* session file that decodes, newest first
listSessions(dir) ==
  IF ~dir.exists THEN <<>>
  ELSE DecodeAll(SortDesc({f \in dir.files : IsSessionFile(f)}))

\* faulty variant: when no session has the id, the newest one is taken
FindSession_ElseNewest(sessions, id) ==
  LET hits == {i \in 1..Len(sessions) : sessions[i].sessionId = id}
  IN IF hits = {} THEN (IF sessions = <<>> THEN 0 ELSE 1)
     ELSE CHOOSE i \in hits : \A j \in hits : i <= j

\* sessions.find((s) => s.sessionId === this.resumeSessionId)
FindSession(sessions, id) ==
  LET hits == {i \in 1..Len(sessions) : sessions[i].sessionId = id}
  IN IF hits = {} THEN 0 ELSE CHOOSE i \in hits : \A j \in hits : i <= j

\* loadSession(filePath).conversation.messages
loadSession(filePath) ==
  (CHOOSE f \in ChatsDir.files : f.ord = filePath).messages

\* Directories listSessions may be pointed at: a missing one, or one that
\* holds, under each of the first MaxSessionFiles names, no file, a session
\* record that decodes, one that does not, or a file whose name lacks the
\* prefix or the suffix.
MaxSessionFiles == 3

FileKinds ==
  { [prefix |-> TRUE,  json |-> TRUE,  decodes |-> TRUE],
    [prefix |-> TRUE,  json |-> TRUE,  decodes |-> FALSE],
    [prefix |-> FALSE, json |-> TRUE,  decodes |-> TRUE],
    [prefix |-> TRUE,  json |-> FALSE, decodes |-> TRUE] }

NoFile == [prefix |-> FALSE, json |-> FALSE, decodes |-> FALSE]

FileAt(ord, kind) ==
  [ord |-> ord, prefix |-> kind.prefix, json |-> kind.json,
   decodes |-> kind.decodes, sessionId |-> "s" \o ToString(ord),
   messages |-> SubSeq(StoredMessages, 1, ord % (Len(StoredMessages) + 1))]

MissingDir == [exists |-> FALSE, files |-> {}]

ChatsDirs ==
  {MissingDir} \cup
  { [exists |-> TRUE,
     files |-> {FileAt(i, f[i]) : i \in {j \in DOMAIN f : f[j] # NoFile}}] :
      f \in [1..MaxSessionFiles -> FileKinds \cup {NoFile}] }

\* Persisted entries messageRecordsToHistory may be given
MaxMessages == 2

ToolCallRecord(id, result) ==
  [id |-> id, name |-> "save_note", args |-> ObjArgs, result |-> result]

MessageRecords ==
  { [type |-> "user", content |-> Str("hi"), toolCalls |-> <<>>],
    [type |-> "user", content |-> Falsy, toolCalls |-> <<>>],
    [type |-> "user", content |-> Arr(<< Str("see"), Part("img") >>),
     toolCalls |-> <<>>],
    [type |-> "user", content |-> Part("img"), toolCalls |-> <<>>],
    [type |-> "user", content |-> Arr(<<>>), toolCalls |-> <<>>],
    [type |-> "info", content |-> Str("note"), toolCalls |-> <<>>],
    [type |-> "warning", content |-> Str("careful"), toolCalls |-> <<>>],
    [type |-> "error", content |-> Str("oops"), toolCalls |-> <<>>],
    [type |-> "gemini", content |-> Str("ok"), toolCalls |-> <<>>],
    [type |-> "gemini", content |-> Falsy, toolCalls |-> <<>>],
    [type |-> "gemini", content |-> Str("calling"),
     toolCalls |-> << ToolCallRecord("c1", Str("r1")) >>],
    [type |-> "gemini", content |-> Falsy,
     toolCalls |-> << ToolCallRecord("c1", Null),
                      ToolCallRecord("c2", Arr(<< Part("out"), Str("r2") >>)),
                      ToolCallRecord("c3", Str("r3")) >>],
    [type |-> "gemini", content |-> Str("wait"),
     toolCalls |-> << ToolCallRecord("c1", Null) >>],
    [type |-> "gemini", content |-> Str("quiet"),
     toolCalls |-> << ToolCallRecord("c1", Arr(<<>>)) >>],
    [type |-> "gemini", content |-> Str("both"),
     toolCalls |-> << ToolCallRecord("c1", Arr(<< Resp("c1") >>)),
                      ToolCallRecord("c2", Resp("c2")) >>],
    [type |-> "gemini", content |-> Falsy,
     toolCalls |-> << ToolCallRecord("c1", Resp("c1")),
                      ToolCallRecord("c2", Null) >>] }

MessageSeqs == UNION {[1..n -> MessageRecords] : n \in 0..MaxMessages}

(***************************************************************************)
(* Sub-agent tools (subagent.ts).  The collaborators (prompt resolvers,    *)
(* LocalAgentExecutor, loadAgentsFromDirectory, the A2A client) are        *)
(* modelled at their call sites by what they return.                       *)
(***************************************************************************)
MaxFiles == 3
MaxInvocations == 2

\* Tool parameters: a JSON object as its fields in order.  The parameters and
\* Session Context no call was given.
NoParams == << << "-", Null >> >>
NoSubCtx == [round |-> 0, activeModel |-> "-"]

\* A prompt text: a literal of the options, or what a resolver computed
Literal(text) ==
  [by |-> "literal", text |-> text, params |-> NoParams, ctx |-> NoSubCtx]
Undefined ==
  [by |-> "undefined", text |-> "", params |-> NoParams, ctx |-> NoSubCtx]

\* PromptValue: a string, a resolver function, or (for query) left out
StaticPrompt(text) == [kind |-> "string", text |-> text]
DynamicPrompt(id) == [kind |-> "function", text |-> id]
NoPrompt == [kind |-> "undefined", text |-> ""]

\* SubAgentOptions handed to defineSubAgent
SubAgentOptions ==
  { [name |-> "writer", systemPrompt |-> StaticPrompt("write well"),
     query |-> NoPrompt, model |-> "inherit"],
    [name |-> "planner", systemPrompt |-> StaticPrompt("plan"),
     query |-> DynamicPrompt("planQuery"), model |-> "flash"],
    [name |-> "researcher", systemPrompt |-> DynamicPrompt("researchSystem"),
     query |-> DynamicPrompt("researchQuery"), model |-> "inherit"] }

NoOptions ==
  [name |-> "-", systemPrompt |-> NoPrompt, query |-> NoPrompt,
   model |-> "-"]

\* typeof value === "function"
IsResolver(value) == value.kind = "function"

\* What a resolver returns: a text computed from the arguments it was given
Resolved(value, params, ctx) ==
  [by |-> value.text, text |-> "", params |-> params, ctx |-> ctx]

\* options.query as string | undefined
AsText(value) ==
  IF value.kind = "undefined" THEN Undefined ELSE Literal(value.text)

\* faulty variant: the resolver is given no parameters and no context
resolvePromptValue_NoArgs(value, params, ctx) ==
  IF IsResolver(value)
    THEN Resolved(value, NoParams, NoSubCtx)
    ELSE AsText(value)

\* resolvePromptValue
resolvePromptValue(value, params, ctx) ==
  IF IsResolver(value) THEN Resolved(value, params, ctx) ELSE AsText(value)

\* typeof options.systemPrompt === "function" || typeof options.query === ...
hasDynamicPrompt(o) == IsResolver(o.systemPrompt) \/ IsResolver(o.query)

\* buildLocalAgentDef: query is left out of promptConfig when undefined
buildLocalAgentDef(o, systemPrompt, query) ==
  [kind |-> "local", name |-> o.name,
   promptConfig |-> [systemPrompt |-> systemPrompt, query |-> query],
   modelConfig |-> [model |-> o.model]]

NoDef ==
  [kind |-> "-", name |-> "-",
   promptConfig |-> [systemPrompt |-> Undefined, query |-> Undefined],
   modelConfig |-> [model |-> "-"]]

\* the ToolDef of wrapLocalAgentAsTool, and of the dynamic path
LocalTool(name, path, o, def) ==
  [name |-> name, kind |-> "local", path |-> path, options |-> o,
   def |-> def, agentCardUrl |-> "-", sendErrorsToModel |-> "true"]

\* the ToolDef of wrapRemoteAgentAsTool
RemoteTool(def) ==
  [name |-> def.name, kind |-> "remote", path |-> "static",
   options |-> NoOptions, def |-> NoDef, agentCardUrl |-> def.agentCardUrl,
   sendErrorsToModel |-> "true"]

\* defineSubAgent(options)
defineSubAgent(o) ==
  IF ~hasDynamicPrompt(o)
    THEN LocalTool(o.name, "static", o,
                   buildLocalAgentDef(o, AsText(o.systemPrompt),
                                      AsText(o.query)))
    ELSE LocalTool(o.name, "dynamic", o, NoDef)

\* A sub-agent tool handed to the parent agent in its tools: the static
\* local sub-agent "writer"
Writer ==
  defineSubAgent(CHOOSE o \in SubAgentOptions : o.name = "writer")
SubAgentTools == {Writer.name}

\* the calls defineSubAgent makes while it defines the tool
DefinitionCalls(o) ==
  IF ~hasDynamicPrompt(o)
    THEN << [op |-> "buildLocalAgentDef", n |-> 0,
             arg |-> buildLocalAgentDef(o, AsText(o.systemPrompt),
                                        AsText(o.query))] >>
    ELSE <<>>

\* Definition files of a sub-agent directory, by what core's loader makes
\* of each: a local or a remote definition, a load error, or nothing (a file
\* whose name begins with "_").  path is the rank of the file name.
AgentFiles ==
  { [path |-> 1, yields |-> "local",   name |-> "summarizer"],
    [path |-> 2, yields |-> "remote",  name |-> "translator"],
    [path |-> 3, yields |-> "error",   name |-> "-"],
    [path |-> 4, yields |-> "local",   name |-> "critic"],
    [path |-> 5, yields |-> "ignored", name |-> "-"] }

Dirs == {d \in SUBSET AgentFiles : Cardinality(d) <= MaxFiles}

RECURSIVE InPathOrder(_)
InPathOrder(files) ==
  IF files = {} THEN <<>>
  ELSE LET first == CHOOSE f \in files : \A g \in files : f.path <= g.path
       IN << first >> \o InPathOrder(files \ {first})

\* the definition core's loader parses from a file
ParsedDef(f) ==
  IF f.yields = "remote"
    THEN [kind |-> "remote", name |-> f.name, agentCardUrl |-> f.path]
    ELSE [kind |-> "local", name |-> f.name,
          promptConfig |-> [systemPrompt |-> Literal("from file"),
                            query |-> Undefined],
          modelConfig |-> [model |-> "inherit"]]

\* loadAgentsFromDirectory(dir): { agents, errors }
loadAgentsFromDirectory(dir) ==
  LET files == InPathOrder(dir)
      good == SelectSeq(files, LAMBDA f : f.yields \in {"local", "remote"})
      bad == SelectSeq(files, LAMBDA f : f.yields = "error")
  IN [agents |-> [i \in 1..Len(good) |-> ParsedDef(good[i])],
      errors |-> [i \in 1..Len(bad) |->
                    [filePath |-> bad[i].path, message |-> "invalid"]]]

\* the loop body of loadSubAgents: the tool made of one definition
WrapAgent(def) ==
  IF def.kind = "local" THEN LocalTool(def.name, "static", NoOptions, def)
  ELSE RemoteTool(def)

\* faulty variant: one load error makes the load return nothing
loadSubAgents_FailFast(dir) ==
  LET loaded == loadAgentsFromDirectory(dir)
  IN [tools |-> IF Len(loaded.errors) > 0 THEN <<>>
                ELSE [i \in 1..Len(loaded.agents) |->
                        WrapAgent(loaded.agents[i])],
      console |-> loaded.errors]

\* loadSubAgents(dir): the tools returned and the lines written to the console
loadSubAgents(dir) ==
  LET loaded == loadAgentsFromDirectory(dir)
  IN [tools |-> [i \in 1..Len(loaded.agents) |-> WrapAgent(loaded.agents[i])],
      console |-> loaded.errors]

\* AgentTerminateMode, and what executor.run can resolve to
TerminateReasons == {"GOAL", "MAX_TURNS", "TIMEOUT", "ABORTED", "ERROR"}
ExecutorRuns == [terminate_reason : TerminateReasons, result : {"report"}]

\* the model registered under the alias `${def.name}-config`
\* faulty variant: "inherit" is resolved to the model the parent was
\* constructed with, not to the one active at the call
AliasModel_AtConstruction(def, ctx) ==
  IF def.modelConfig.model = "inherit"
    THEN "pro" ELSE def.modelConfig.model

AliasModel(def, ctx) ==
  IF def.modelConfig.model = "inherit"
    THEN ctx.activeModel ELSE def.modelConfig.model

\* `Sub-agent "${def.name}" terminated: ${result.terminate_reason}`
TerminatedMessage(def, run) ==
  "Sub-agent \"" \o def.name \o "\" terminated: " \o run.terminate_reason

\* faulty variant: only a fatal error is a failure
ReachedGoal_UnlessError(run) == run.terminate_reason # "ERROR"

\* result.terminate_reason === AgentTerminateMode.GOAL
ReachedGoal(run) == run.terminate_reason = "GOAL"

\* faulty variant: the result is returned however the run ended
executeLocalAgent_ReturnsAnyway(def, run) ==
  [kind |-> "return", cls |-> "string", text |-> run.result]

\* executeLocalAgent, once the executor has run: what the action does
executeLocalAgent(def, run) ==
  IF ~ReachedGoal(run)
    THEN [kind |-> "throw", cls |-> "ToolError",
          text |-> TerminatedMessage(def, run)]
    ELSE [kind |-> "return", cls |-> "string", text |-> run.result]

\* Parameters a sub-agent tool is invoked with
Num(text) == [k |-> "number", v |-> text, items |-> <<>>]

SubParams ==
  { << << "query", Str("find X") >> >>,
    << << "query", Null >> >>,
    << << "query", Num("42") >> >>,
    << << "topic", Str("tla") >>, << "depth", Num("2") >> >>,
    <<>> }

\* "query" in params, and params.query
HasQuery(params) == \E i \in 1..Len(params) : params[i][1] = "query"
QueryOf(params) ==
  params[CHOOSE i \in 1..Len(params) : params[i][1] = "query"][2]

\* String(value ?? "")
StringOrEmpty(value) == IF value.k = "null" THEN "" ELSE value.v

\* JSON.stringify of a value and of an object
JSONValue(value) ==
  IF value.k = "null" THEN "null"
  ELSE IF value.k = "string" THEN "\"" \o value.v \o "\""
  ELSE value.v

RECURSIVE JSONMembers(_)
JSONMembers(params) ==
  IF params = <<>> THEN ""
  ELSE "\"" \o Head(params)[1] \o "\":" \o JSONValue(Head(params)[2])
       \o (IF Len(params) > 1 THEN "," ELSE "")
       \o JSONMembers(Tail(params))

JSONStringify(params) == "{" \o JSONMembers(params) \o "}"

\* faulty variant: the parameters are always sent as JSON
QueryText_AlwaysJSON(params) == JSONStringify(params)

\* the text sent: "query" in params ? String(params.query ?? "") : JSON
QueryText(params) ==
  IF HasQuery(params) THEN StringOrEmpty(QueryOf(params))
  ELSE JSONStringify(params)

\* the MessageSendParams of client.sendMessage
SendParams(params) ==
  [message |-> [kind |-> "message", role |-> "user",
                parts |-> << [kind |-> "text", text |-> QueryText(params)] >>],
   configuration |-> [blocking |-> TRUE]]

\* What the remote agent answers: a Message, or a Task whose status or
\* status message may be missing
MaxParts == 2

A2AParts ==
  { [kind |-> "text", text |-> "alpha"],
    [kind |-> "text", text |-> "beta"],
    [kind |-> "file", text |-> "report.pdf"] }

PartLists == UNION {[1..n -> A2AParts] : n \in 0..MaxParts}

A2AResponses ==
  [kind : {"message"}, status : {"-"}, parts : PartLists]
    \cup [kind : {"task"}, status : {"message"}, parts : PartLists]
    \cup [kind : {"task"}, status : {"absent", "noMessage"}, parts : {<<>>}]

\* faulty variant: only the first text part is returned
RECURSIVE extractTextFromParts_First(_)
extractTextFromParts_First(parts) ==
  IF parts = <<>> THEN ""
  ELSE IF Head(parts).kind = "text" THEN Head(parts).text
  ELSE extractTextFromParts_First(Tail(parts))

\* parts.filter(kind === "text").map(text).join("\n")
RECURSIVE JoinLines(_)
JoinLines(texts) ==
  IF texts = <<>> THEN ""
  ELSE IF Len(texts) = 1 THEN Head(texts)
  ELSE Head(texts) \o "\n" \o JoinLines(Tail(texts))

extractTextFromParts(parts) ==
  LET texts == SelectSeq(parts, LAMBDA q : q.kind = "text")
  IN JoinLines([i \in 1..Len(texts) |-> texts[i].text])

\* extractTextFromResult
extractTextFromResult(result) ==
  IF result.kind = "message" THEN extractTextFromParts(result.parts)
  ELSE IF result.status = "message" THEN extractTextFromParts(result.parts)
  ELSE ""

(***************************************************************************)
(* State.                                                                  *)
(***************************************************************************)
VARIABLES
  options,            \* GeminiAgentOptions: instructions kind, sessionId, tools
  contentGenerator,   \* config.getContentGenerator() is set
  initialized,        \* GeminiAgent.initialized
  instructionsLoaded, \* GeminiAgent.instructionsLoaded
  userMemory,         \* config.getUserMemory(): "", "static" or "resolved"
  systemInstruction,  \* what the client last installed
  registry,           \* tools held by the live ToolRegistry
  skillsLoaded,       \* the skill manager holds the skills of skillRefs
  history,            \* the client's transcript (client.getHistory())
  calls,              \* how often each collaborator was called so far
  pc,                 \* where the running sendStream is; "idle" when none
  outcome,            \* how the last send ended
  request,            \* request of the next streaming call
  events,             \* events buffered in this round
  cur,                \* the event in hand
  delivered,          \* events the backend delivered in this send
  yielded,            \* events the caller received in this send
  toolCalls,          \* extractToolCalls of this round
  results,            \* completions of this round, by request position
  ctx,                \* Session Context of this round
  openStreams,        \* rounds of this send whose stream is open
  openSched,          \* rounds of this send whose scheduler call is unsettled
  streamCalls,        \* streaming calls of this send
  schedCalls,         \* scheduler invocations of this send
  requested,          \* per round of this send, the tool-call requests seen
  inputs,             \* per streaming call of this send, its input
  completed,          \* per scheduler invocation of this send, its result
  runs,               \* tool actions run in this send
  abortSignal,        \* the AbortSignal of this send
  handed,             \* the signal each streaming and scheduler call was given
  subagents,          \* sub-agent tools defined or loaded so far, by name
  reported,           \* load errors written to the console
  loaded,             \* the directory last loaded and the tools it gave
  inv,                \* the sub-agent tool invocation in progress or just ended
  trace,              \* calls made by the last definition, load or invocation
  stored,             \* what is on disk: a chats directory, a record's entries
  derived,            \* what listSessions or messageRecordsToHistory returned
  ran,                \* the tool or capability call made on its own, and what it did
  parent,             \* the parent agent's active model, now and when tools were defined and invoked
  a2a                 \* the shared ClientFactory and the protocol clients created so far

agentVars == << options, contentGenerator, initialized, instructionsLoaded,
                userMemory, systemInstruction, registry, skillsLoaded >>
roundVars == << request, events, cur, toolCalls, results, ctx >>
logVars == << delivered, yielded, openStreams, openSched, streamCalls,
              schedCalls, requested, inputs, completed, runs >>
signalVars == << abortSignal, handed >>
agentSide == << agentVars, history, calls, pc, outcome, roundVars, logVars,
                signalVars >>
libVars == << subagents, reported, loaded, inv, trace, stored, derived,
             ran, parent, a2a >>
vars == << agentSide, libVars >>

NoEvent == MkEvent([type |-> "-", name |-> "-", args |-> ObjArgs], 0, 0)
NoCtx == [sessionId |-> "-", transcript |-> <<>>, round |-> 0, send |-> 0]
Pending == [callId |-> 0, name |-> "-", responseParts |-> <<>>]

\* No send has been made yet.  src tells whose signal the send uses: the
\* caller's, or a fresh one nobody can fire; firedIn is the round whose
\* stream was open, or was the next to open, when the signal fired, and had
\* what the caller had received by then.
NoSignal == [src |-> "-", aborted |-> FALSE, firedIn |-> 0, had |-> <<>>]

\* crypto.randomUUID() of the constructor
SessionId == "sid"

InstructionKinds == {"string", "function"}
ResumeIds == {"none", "s1", "s9"}

ZeroCalls ==
  [auth |-> 0, configInit |-> 0, resume |-> 0, skills |-> 0,
   register |-> [t \in Tools \cup SubAgentTools |-> 0], resolver |-> 0, resolved |-> 0,
   streams |-> 0, events |-> 0, lists |-> 0, sends |-> 0]

\* No sub-agent tool has been invoked, no directory loaded
NoResult == [kind |-> "-", cls |-> "-", text |-> ""]
NoInv ==
  [pc |-> "idle", n |-> 0, tool |-> LocalTool("-", "-", NoOptions, NoDef),
   params |-> NoParams, ctx |-> NoSubCtx, systemPrompt |-> Undefined,
   query |-> Undefined, def |-> NoDef, result |-> NoResult]
NotLoaded == [dir |-> {}, tools |-> <<>>, done |-> FALSE]

\* The parent runs on the model it was constructed with; no tool has been
\* defined or invoked
NoParent == [activeModel |-> "pro", atDefinition |-> "-", atInvocation |-> <<>>]

\* let sharedClientFactory: ClientFactory | undefined; no client was created
NoA2A == [factory |-> FALSE, factories |-> 0, created |-> <<>>]

\* Nothing has been defined, loaded or invoked outside the agent
LibIdle ==
  /\ subagents = {}
  /\ reported = <<>>
  /\ loaded = NotLoaded
  /\ inv = NoInv
  /\ parent = NoParent
  /\ a2a = NoA2A
  /\ trace = <<>>

\* the constructor, given its options
Constructed ==
  /\ contentGenerator = FALSE
  /\ initialized = FALSE
  /\ instructionsLoaded = FALSE
  /\ userMemory = (IF options.instructions = "string" THEN "static" ELSE "")
  /\ systemInstruction = userMemory
  /\ registry = {}
  /\ skillsLoaded = FALSE
  /\ history = <<>>
  /\ calls = ZeroCalls
  /\ pc = "idle"
  /\ outcome = "none"
  /\ request = <<>>
  /\ events = <<>>
  /\ cur = NoEvent
  /\ delivered = <<>>
  /\ yielded = <<>>
  /\ toolCalls = <<>>
  /\ results = <<>>
  /\ ctx = NoCtx
  /\ openStreams = {}
  /\ openSched = {}
  /\ streamCalls = 0
  /\ schedCalls = 0
  /\ requested = <<>>
  /\ inputs = <<>>
  /\ completed = <<>>
  /\ runs = {}
  /\ abortSignal = NoSignal
  /\ handed = {}

\* new GeminiAgent(options)
AgentInit ==
  /\ options \in [instructions : InstructionKinds, sessionId : ResumeIds,
                  tools : {Tools}]
  /\ Constructed

\* Nothing of the session library has been applied
NoStored == [dir |-> MissingDir, messages |-> <<>>]
NoDerived == [op |-> "none", sessions |-> <<>>, history |-> <<>>]

SessionIdle ==
  /\ stored = NoStored
  /\ derived = NoDerived

\* No tool or capability has been called on its own
NoRan == [op |-> "none"]

CapIdle == ran = NoRan

Init == AgentInit /\ LibIdle /\ SessionIdle /\ CapIdle

\* The functions of the library used on their own, beside an idle agent
InitLib ==
  /\ Init
  /\ options = [instructions |-> "string", sessionId |-> "none",
               tools |-> Tools]

\* listSessions pointed at a directory
InitListing ==
  /\ AgentInit
  /\ options = [instructions |-> "string", sessionId |-> "none",
               tools |-> Tools]
  /\ LibIdle
  /\ stored \in [dir : ChatsDirs, messages : {<<>>}]
  /\ derived = NoDerived
  /\ CapIdle

\* messageRecordsToHistory given the entries of a record
InitReconstruct ==
  /\ AgentInit
  /\ options = [instructions |-> "string", sessionId |-> "none",
               tools |-> Tools]
  /\ LibIdle
  /\ stored \in [dir : {MissingDir}, messages : MessageSeqs]
  /\ derived = NoDerived
  /\ CapIdle

(***************************************************************************)
(* The live ToolRegistry holds tool objects.  A tool implemented here is   *)
(* an SdkTool: it carries its definition and the context it is bound to.   *)
(* Any other tool (one the core registered) has neither.  obj tells the    *)
(* registered instance from a copy made later.                             *)
(***************************************************************************)
NoTool ==
  [cls |-> "-", name |-> "-", def |-> "-", context |-> NoCtx, obj |-> "-"]

\* new SdkTool(toolDef, messageBus, this): no context is passed
SdkTool(def, context, obj) ==
  [cls |-> "SdkTool", name |-> def, def |-> def, context |-> context,
   obj |-> obj]

\* a tool of the core, which is not an instance of SdkTool
CoreTool(name) ==
  [cls |-> "CoreTool", name |-> name, def |-> "-", context |-> NoCtx,
   obj |-> "registered"]

Names(reg) == {t.name : t \in reg}

\* originalRegistry.getTool(name): the tool of that name, or undefined
getTool(reg, name) ==
  IF name \in Names(reg) THEN CHOOSE t \in reg : t.name = name ELSE NoTool

\* for (const toolDef of this.tools) registry.registerTool(new SdkTool(...))
RegisterTools(reg) ==
  reg \cup {SdkTool(t, NoCtx, "registered") : t \in options.tools}

Bump(f) == [calls EXCEPT ![f] = @ + 1]

\* The send ends here: rejected with an error, or the generator returns
Ends(how) ==
  /\ pc' = "idle"
  /\ outcome' = how

(***************************************************************************)
(* ensureInitialized: refreshAuth creates the content generator, then      *)
(* config.initialize() runs; either may raise.                             *)
(***************************************************************************)
EnsureOutcomes == {"ok", "authFail", "configFail"}

EnsureCalls(c, out) ==
  IF initialized THEN c
  ELSE [c EXCEPT !.auth = @ + 1,
                 !.configInit = IF out = "authFail" THEN @ ELSE @ + 1]

EnsureContentGenerator(out) ==
  IF initialized THEN contentGenerator
  ELSE contentGenerator \/ out # "authFail"

EnsureInitializedFlag(out) == initialized \/ out = "ok"

\* faulty variant: a failure of config.initialize() is swallowed
EnsureRaises_AuthOnly(out) == ~initialized /\ out = "authFail"

EnsureRaises(out) == ~initialized /\ out # "ok"

\* agent.listSessions()
ListSessions ==
  /\ pc = "idle"
  /\ calls.lists < MaxLists
  /\ \E out \in EnsureOutcomes :
       /\ contentGenerator' = EnsureContentGenerator(out)
       /\ initialized' = EnsureInitializedFlag(out)
       /\ calls' = [EnsureCalls(calls, out) EXCEPT
                     !.lists = IF initialized THEN @ ELSE @ + 1]
  /\ UNCHANGED << options, instructionsLoaded, userMemory, systemInstruction,
                  registry, skillsLoaded, history, pc, outcome, roundVars,
                  logVars,
                  signalVars >>
  /\ UNCHANGED libVars

\* agent.sendStream(prompt, signal): the caller starts to pull the generator
\* const abortSignal = signal ?? new AbortController().signal;
SendStreamWith(src) ==
  /\ pc = "idle"
  /\ calls.sends < MaxSends
  /\ pc' = "init"
  /\ outcome' = "running"
  /\ calls' = Bump("sends")
  /\ request' = << [text |-> "prompt"] >>
  /\ events' = <<>>
  /\ cur' = NoEvent
  /\ toolCalls' = <<>>
  /\ results' = <<>>
  /\ ctx' = NoCtx
  /\ delivered' = <<>>
  /\ yielded' = <<>>
  /\ openStreams' = {}
  /\ openSched' = {}
  /\ streamCalls' = 0
  /\ schedCalls' = 0
  /\ requested' = <<>>
  /\ inputs' = <<>>
  /\ completed' = <<>>
  /\ runs' = {}
  /\ abortSignal' = [NoSignal EXCEPT !.src = src]
  /\ handed' = {}
  /\ UNCHANGED << agentVars, history >>
  /\ UNCHANGED libVars

\* agent.sendStream(prompt)
SendStream == SendStreamWith("fresh")

\* agent.sendStream(prompt, controller.signal)
SendStreamSignal == SendStreamWith("caller")

(***************************************************************************)
(* initialize(): returns at once when the config has a content generator;  *)
(* otherwise ensureInitialized, session resume, skill loading and tool     *)
(* registration, in that order.                                            *)
(***************************************************************************)
InitOutcomes == EnsureOutcomes \cup {"resumeFail"}

\* if (this.config.getContentGenerator()) return;
InitializeReturnsEarly == contentGenerator

\* the session record to resume: 0 when none was asked for or none matches
ResumeTarget ==
  IF options.sessionId = "none" THEN 0
  ELSE FindSession(listSessions(ChatsDir), options.sessionId)

ResumedHistory ==
  messageRecordsToHistory(
    loadSession(listSessions(ChatsDir)[ResumeTarget].filePath))

RegisterCalls(c) ==
  [c EXCEPT !.register =
     [t \in DOMAIN @ |-> IF t \in options.tools THEN @[t] + 1 ELSE @[t]]]

Initialize ==
  /\ pc = "init"
  /\ IF InitializeReturnsEarly
       THEN /\ pc' = "resolve"
            /\ UNCHANGED << contentGenerator, initialized, registry,
                            skillsLoaded, history, calls, outcome >>
       ELSE \E out \in InitOutcomes :
              LET ens == IF out = "resumeFail" THEN "ok" ELSE out
                  c1 == EnsureCalls(calls, ens)
              IN /\ out = "resumeFail" => ResumeTarget # 0
                 /\ contentGenerator' = EnsureContentGenerator(ens)
                 /\ initialized' = EnsureInitializedFlag(ens)
                 /\ IF EnsureRaises(ens) \/ out = "resumeFail"
                      THEN /\ Ends("initError")
                           /\ calls' = c1
                           /\ UNCHANGED << registry, skillsLoaded, history >>
                      ELSE /\ pc' = "resolve"
                           /\ UNCHANGED outcome
                           /\ history' = (IF ResumeTarget # 0
                                            THEN ResumedHistory ELSE history)
                           /\ skillsLoaded' = TRUE
                           /\ registry' = RegisterTools(registry)
                           /\ calls' =
                                RegisterCalls(
                                  [c1 EXCEPT
                                     !.resume = IF ResumeTarget # 0
                                                  THEN @ + 1 ELSE @,
                                     !.skills = @ + 1])
  /\ UNCHANGED << options, instructionsLoaded, userMemory, systemInstruction,
                  roundVars, logVars,
                  signalVars >>
  /\ UNCHANGED libVars

(***************************************************************************)
(* if (!this.instructionsLoaded) await this.resolveInstructions(ctx, ...)  *)
(***************************************************************************)
\* faulty variant: the flag is never set
MarkResolved_Never == FALSE

\* this.instructionsLoaded = true;
MarkResolved == TRUE

\* faulty variant: the flag is set before the resolver is awaited
LoadedAfterRaise_Set == TRUE

\* the resolver raised at `await this.instructions(ctx)`: the statements
\* after it, the flag among them, are not reached
LoadedAfterRaise == instructionsLoaded

ResolveInstructions ==
  /\ pc = "resolve"
  /\ IF instructionsLoaded \/ options.instructions # "function"
       THEN /\ pc' = "issue"
            /\ UNCHANGED << instructionsLoaded, userMemory, systemInstruction,
                            calls, outcome >>
       ELSE \E ok \in BOOLEAN :
              /\ calls' = [calls EXCEPT !.resolver = @ + 1,
                                        !.resolved = IF ok THEN @ + 1 ELSE @]
              /\ IF ok
                   THEN /\ userMemory' = "resolved"
                        /\ systemInstruction' = "resolved"
                        /\ instructionsLoaded' = MarkResolved
                        /\ pc' = "issue"
                        /\ UNCHANGED outcome
                   ELSE /\ Ends("resolverError")
                        /\ instructionsLoaded' = LoadedAfterRaise
                        /\ UNCHANGED << userMemory, systemInstruction >>
  /\ UNCHANGED << options, contentGenerator, initialized, registry,
                  skillsLoaded, history, roundVars, logVars,
                  signalVars >>
  /\ UNCHANGED libVars

(***************************************************************************)
(* The turn loop: while (true) { ... }                                     *)
(***************************************************************************)
\* The turns the client appends to its transcript while it streams.  A live
\* turn is recorded by the send and round that produced it and the number of
\* its parts; the parts themselves are in inputs and delivered.
UserTurn(req, round) ==
  [role |-> "user", send |-> calls.sends, round |-> round, parts |-> Len(req)]
ModelTurn(evs, round) ==
  [role |-> "model", send |-> calls.sends, round |-> round,
   parts |-> Len(evs)]

\* const stream = client.sendMessageStream(request, abortSignal, sessionId)
IssueStream ==
  /\ pc = "issue"
  /\ calls.streams < MaxStreams
  /\ pc' = "await"
  /\ calls' = Bump("streams")
  /\ streamCalls' = streamCalls + 1
  /\ openStreams' = openStreams \cup {streamCalls + 1}
  /\ inputs' = Append(inputs, request)
  /\ history' = Append(history, UserTurn(request, streamCalls + 1))
  /\ events' = <<>>
  /\ handed' = handed \cup {[to |-> "stream", round |-> streamCalls + 1,
                              signal |-> abortSignal.src]}
  /\ UNCHANGED << agentVars, outcome, request, cur, toolCalls, results, ctx,
                  delivered, yielded, openSched, schedCalls, requested,
                  completed, runs, abortSignal >>
  /\ UNCHANGED libVars

\* the stream delivers its next event to the for await loop
BackendDeliver ==
  /\ pc = "await"
  /\ ~abortSignal.aborted
  /\ calls.events < MaxEvents
  /\ \E c \in EventChoices :
       /\ c.type = "ToolCallRequest" => c.name \in Names(registry)
       /\ cur' = MkEvent(c, calls.events + 1, streamCalls)
  /\ delivered' = Append(delivered, cur')
  /\ calls' = Bump("events")
  /\ pc' = "yield"
  /\ UNCHANGED << agentVars, history, outcome, request, events, toolCalls,
                  results, ctx, yielded, openStreams, openSched, streamCalls,
                  schedCalls, requested, inputs, completed, runs,
                  signalVars >>
  /\ UNCHANGED libVars

\* faulty variant: events that are neither content nor tool calls are rewritten
Yielded_Rewritten(e) ==
  IF e.type \in {"Content", "ToolCallRequest"} THEN e
  ELSE [e EXCEPT !.type = "Content"]

\* yield event;
Yielded(e) == e

YieldEvent ==
  /\ pc = "yield"
  /\ yielded' = Append(yielded, Yielded(cur))
  /\ pc' = "suspended"
  /\ UNCHANGED << agentVars, history, calls, outcome, roundVars, delivered,
                  openStreams, openSched, streamCalls, schedCalls, requested,
                  inputs, completed, runs,
                  signalVars >>
  /\ UNCHANGED libVars

\* the caller pulls again: events.push(event), then the next stream read
Resume ==
  /\ pc = "suspended"
  /\ events' = Append(events, cur)
  /\ pc' = "await"
  /\ UNCHANGED << agentVars, history, calls, outcome, request, cur, toolCalls,
                  results, ctx, logVars,
                  signalVars >>
  /\ UNCHANGED libVars

\* the caller stops consuming: generator.return() closes the stream
CallerReturn ==
  /\ pc = "suspended"
  /\ openStreams' = openStreams \ {streamCalls}
  /\ Ends("returned")
  /\ UNCHANGED << agentVars, history, calls, roundVars, delivered, yielded,
                  openSched, streamCalls, schedCalls, requested, inputs,
                  completed, runs,
                  signalVars >>
  /\ UNCHANGED libVars

\* faulty variant: the error is swallowed and the loop goes on to the next round
StreamError_Swallowed ==
  /\ pc = "await"
  /\ openStreams' = openStreams \ {streamCalls}
  /\ pc' = "issue"
  /\ outcome' = "streamError"
  /\ UNCHANGED << agentVars, history, calls, roundVars, delivered, yielded,
                  openSched, streamCalls, schedCalls, requested, inputs,
                  completed, runs,
                  signalVars >>
  /\ UNCHANGED libVars

\* the stream raises instead of delivering
StreamError ==
  /\ pc = "await"
  /\ openStreams' = openStreams \ {streamCalls}
  /\ Ends("streamError")
  /\ UNCHANGED << agentVars, history, calls, roundVars, delivered, yielded,
                  openSched, streamCalls, schedCalls, requested, inputs,
                  completed, runs,
                  signalVars >>
  /\ UNCHANGED libVars

\* faulty variant: a single request no longer keeps the loop going
TurnComplete_OffByOne(calls_) == Len(calls_) <= 1

\* faulty variant: the loop has no break
TurnComplete_Never(calls_) == FALSE

\* if (toolCalls.length === 0) break;
TurnComplete(calls_) == Len(calls_) = 0

\* the stream ends; extractToolCalls; break when nothing was requested
StreamEnd ==
  /\ pc = "await"
  /\ openStreams' = openStreams \ {streamCalls}
  /\ history' = Append(history, ModelTurn(events, streamCalls))
  /\ requested' = Append(requested,
                         Len(SelectSeq(events, IsToolCallRequest)))
  /\ IF ExtractThrows(events)
       THEN /\ Ends("decodeError")
            /\ UNCHANGED toolCalls
       ELSE /\ toolCalls' = extractToolCalls(events, SessionId)
            /\ IF TurnComplete(toolCalls')
                 THEN Ends("done")
                 ELSE pc' = "sched" /\ UNCHANGED outcome
  /\ UNCHANGED << agentVars, calls, request, events, cur, results, ctx,
                  delivered, yielded, openSched, streamCalls, schedCalls,
                  inputs, completed, runs,
                  signalVars >>
  /\ UNCHANGED libVars

\* build the Session Context and call scheduleAgentTools
\* a turn of this agent's sends, not one seeded from a resumed record
IsLiveTurn(t) == "send" \in DOMAIN t

\* faulty variant: the transcript is taken once, before the loop of the send
SessionContext_BeforeLoop(transcript) ==
  [sessionId |-> SessionId,
   transcript |-> SelectSeq(transcript,
                            LAMBDA t : ~IsLiveTurn(t) \/ t.send < calls.sends),
   round |-> streamCalls, send |-> calls.sends]

\* const ctx: SessionContext = { sessionId, transcript, ..., timestamp, ... }
\* (send and round stand for the timestamp: the time the round built it)
SessionContext(transcript) ==
  [sessionId |-> SessionId, transcript |-> transcript,
   round |-> streamCalls, send |-> calls.sends]

\* faulty variant: the tools of the live registry are rebound where they are
buildScopedRegistry_InPlace(reg, context) ==
  {IF t.cls = "SdkTool" THEN [t EXCEPT !.context = context] ELSE t :
     t \in reg}

\* what buildScopedRegistry(ctx) leaves in the live registry: the scoped one
\* is Object.create(originalRegistry) with a getTool of its own
buildScopedRegistry(reg, context) == reg

Schedule ==
  /\ pc = "sched"
  /\ ctx' = SessionContext(history)
  /\ registry' = buildScopedRegistry(registry, ctx')
  /\ results' = [i \in 1..Len(toolCalls) |-> Pending]
  /\ openSched' = openSched \cup {streamCalls}
  /\ schedCalls' = schedCalls + 1
  /\ pc' = "exec"
  /\ handed' = handed \cup {[to |-> "scheduler", round |-> streamCalls,
                              signal |-> abortSignal.src]}
  /\ UNCHANGED << options, contentGenerator, initialized, instructionsLoaded,
                  userMemory, systemInstruction, skillsLoaded, history, calls,
                  outcome, request, events, cur,
                  toolCalls, delivered, yielded, openStreams, streamCalls,
                  requested, inputs, completed, runs, abortSignal >>
  /\ UNCHANGED libVars

\* the round's lookup in the live registry
RegisteredTool(name) == getTool(registry, name)

\* SdkTool.withContext: new SdkTool(this.def, this.messageBus, undefined, context)
withContext(tool, context) == SdkTool(tool.def, context, "copy")

\* faulty variant: every tool is rebound, whatever its class
scopedGetTool_RebindAll(reg, name, context) ==
  IF getTool(reg, name) = NoTool THEN NoTool
  ELSE [getTool(reg, name) EXCEPT !.context = context, !.obj = "copy"]

\* scopedRegistry.getTool of buildScopedRegistry(ctx) over originalRegistry
scopedGetTool(reg, name, context) ==
  IF getTool(reg, name).cls = "SdkTool"
    THEN withContext(getTool(reg, name), context)
    ELSE getTool(reg, name)

\* faulty variant: the scoped registry hands out the registered instance
ScopedGetTool_Unbound(name, context) == RegisteredTool(name)

\* the lookup the scheduler makes in the round's scoped registry
ScopedGetTool(name, context) == scopedGetTool(registry, name, context)

\* What a tool's work is given to watch for cancellation.  execute(_signal)
\* does not pass the scheduler's signal to the action; a local sub-agent
\* executor runs with the signal of a new AbortController, and so does a
\* shell command started through ctx.shell: signals nobody can fire.

\* executor.run(params, new AbortController().signal)
ExecutorSignal(sendSignal) == [NoSignal EXCEPT !.src = "fresh"]

\* const abortController = new AbortController(); ... abortController.signal
ShellSignal(sendSignal) == [NoSignal EXCEPT !.src = "fresh"]

\* The ToolDef behind a registered tool: one of the plain tools, or the
\* ToolDef wrapLocalAgentAsTool made for the sub-agent
SuppliedDef(name) == IF name \in SubAgentTools THEN Writer ELSE ToolDefs[name]

\* What happens inside the action of a tool: a plain action returns or
\* throws; the action of a sub-agent tool is executeLocalAgent, where the
\* executor's run ends for one reason or another.
Work(name) == IF name \in SubAgentTools THEN ExecutorRuns ELSE Outcomes

\* action: async (params, ctx) => executeLocalAgent(def, params, ctx, ...)
ActionOutcome(name, work) ==
  IF name \in SubAgentTools
    THEN executeLocalAgent(Writer.def, work) ELSE work

TerminateReason(name, work) ==
  IF name \in SubAgentTools THEN work.terminate_reason ELSE "-"

\* the scheduler runs one of the requested tools through the scoped
\* registry: createInvocation hands the tool's context to the action (the
\* backend requests only tools the registry declares)
ToolExecute ==
  /\ pc = "exec"
  /\ \E i \in 1..Len(toolCalls) :
     \E work \in Work(toolCalls[i].name) :
       LET call == toolCalls[i]
           o == ActionOutcome(call.name, work)
           tool == ScopedGetTool(call.name, ctx)
           res == Execute(SuppliedDef(call.name), o)
       IN /\ results[i] = Pending
          /\ tool # NoTool
          /\ runs' = runs \cup {[callId |-> call.callId, name |-> call.name,
                                    round |-> streamCalls, outcome |-> o,
                                    reason |->
                                      TerminateReason(call.name, work),
                                    context |-> tool.context,
                                    fired |-> abortSignal.aborted,
                                    executorSignal |->
                                      ExecutorSignal(abortSignal),
                                    shellSignal |-> ShellSignal(abortSignal),
                                    result |-> res]}
          /\ IF res.tag = "throw"
               THEN /\ Ends("toolError")
                    /\ openSched' = openSched \ {streamCalls}
                    /\ UNCHANGED results
               ELSE /\ results' = [results EXCEPT ![i] = Completion(call, res)]
                    /\ UNCHANGED << pc, outcome, openSched >>
  /\ UNCHANGED << agentVars, history, calls, request, events, cur, toolCalls, ctx,
                  delivered, yielded, openStreams, streamCalls, schedCalls,
                  requested, inputs, completed,
                  signalVars >>
  /\ UNCHANGED libVars

\* faulty variant: the parts are collected in completion order, last first
RECURSIVE NextRequest_Reversed(_)
NextRequest_Reversed(completedCalls) ==
  IF completedCalls = <<>> THEN <<>>
  ELSE NextRequest_Reversed(Tail(completedCalls))
         \o Head(completedCalls).responseParts

\* request = completedCalls.flatMap(...)
NextRequest(completedCalls) == FlatMapResponseParts(completedCalls)

\* faulty variant: the invocation settles as soon as one tool has finished
Settled_Any(res) == \E i \in 1..Len(res) : res[i] # Pending

\* await scheduleAgentTools(...): every requested call has completed
Settled(res) == \A i \in 1..Len(res) : res[i] # Pending

\* scheduleAgentTools settles with the completions in request order
ScheduleReturn ==
  /\ pc = "exec"
  /\ Settled(results)
  /\ completed' = Append(completed, results)
  /\ request' = NextRequest(results)
  /\ openSched' = openSched \ {streamCalls}
  /\ pc' = "issue"
  /\ UNCHANGED << agentVars, history, calls, outcome, events, cur, toolCalls,
                  results, ctx, delivered, yielded, openStreams, streamCalls,
                  schedCalls, requested, inputs, runs,
                  signalVars >>
  /\ UNCHANGED libVars

Next ==
  \/ ListSessions
  \/ SendStream
  \/ Initialize
  \/ ResolveInstructions
  \/ IssueStream
  \/ BackendDeliver
  \/ YieldEvent
  \/ Resume
  \/ CallerReturn
  \/ StreamError
  \/ StreamEnd
  \/ Schedule
  \/ ToolExecute
  \/ ScheduleReturn

Spec == Init /\ [][Next]_vars

\* The agent driven by sendStream calls alone
NextSends ==
  \/ SendStream
  \/ Initialize
  \/ ResolveInstructions
  \/ IssueStream
  \/ BackendDeliver
  \/ YieldEvent
  \/ Resume
  \/ CallerReturn
  \/ StreamError
  \/ StreamEnd
  \/ Schedule
  \/ ToolExecute
  \/ ScheduleReturn

SpecSends == Init /\ [][NextSends]_vars

\* An agent whose tools are a sub-agent tool, driven by sendStream calls
InitSubAgentSend ==
  /\ options = [instructions |-> "string", sessionId |-> "none",
                tools |-> SubAgentTools]
  /\ Constructed
  /\ LibIdle
  /\ SessionIdle
  /\ CapIdle

SpecSubAgentSend == InitSubAgentSend /\ [][NextSends]_vars

\* A send that is driven on: the caller keeps pulling the generator, every
\* awaited call settles, and a stream that is read delivers, ends or raises.
\* The backend requests tools finitely often (MaxEvents), and the scheduler
\* always settles.
SendStep ==
  \/ Initialize
  \/ ResolveInstructions
  \/ IssueStream
  \/ BackendDeliver
  \/ YieldEvent
  \/ Resume
  \/ StreamError
  \/ StreamEnd
  \/ Schedule
  \/ ToolExecute
  \/ ScheduleReturn

SpecDriven == InitLib /\ [][NextSends]_vars /\ WF_vars(SendStep)

(***************************************************************************)
(* Cancellation.  The caller may fire the signal it passed to sendStream   *)
(* at any moment of the send.  The loop never reads the signal: it hands   *)
(* it to sendMessageStream and to scheduleAgentTools.  A stream whose      *)
(* signal has fired delivers nothing more; it raises or it ends.  A tool   *)
(* action does not see the signal (execute(_signal)), so the scheduler     *)
(* still settles with one completion per request.                          *)
(***************************************************************************)
Abort ==
  /\ pc # "idle"
  /\ abortSignal.src = "caller"
  /\ ~abortSignal.aborted
  /\ abortSignal' =
       [abortSignal EXCEPT
          !.aborted = TRUE,
          !.firedIn = IF pc \in {"await", "yield", "suspended"}
                        THEN streamCalls ELSE streamCalls + 1,
          !.had = yielded]
  /\ UNCHANGED << agentVars, history, calls, pc, outcome, roundVars, logVars,
                  handed >>
  /\ UNCHANGED libVars

NextCancel ==
  \/ SendStream
  \/ SendStreamSignal
  \/ Abort
  \/ Initialize
  \/ ResolveInstructions
  \/ IssueStream
  \/ BackendDeliver
  \/ YieldEvent
  \/ Resume
  \/ CallerReturn
  \/ StreamError
  \/ StreamEnd
  \/ Schedule
  \/ ToolExecute
  \/ ScheduleReturn

SpecCancel == Init /\ [][NextCancel]_vars

(***************************************************************************)
(* Properties.                                                             *)
(***************************************************************************)
Ended == pc = "idle" /\ outcome # "none"

\* the tool-call requests the stream of round n delivered, in delivery order
RequestsOf(n) ==
  SelectSeq(delivered, LAMBDA e : e.rnd = n /\ IsToolCallRequest(e))

\* C1 as stated: once a send has ended, every round that requested no tool
\* was the last streaming call and had no scheduler invocation, and every
\* round that requested a tool had its scheduler invocation and was followed
\* by a further streaming call.
C1_AsStated ==
  Ended =>
    \A n \in 1..Len(requested) :
      IF requested[n] = 0
        THEN streamCalls = n /\ schedCalls = n - 1
        ELSE schedCalls >= n /\ streamCalls >= n + 1

\* C1 amended: a round without requests ends the send normally with r
\* streaming calls and r-1 scheduler invocations; a round with requests never
\* ends the send normally, is scheduled at most once, and misses its
\* scheduler invocation only when decoding the arguments raised and its
\* further streaming call only when the scheduler invocation raised.
C1_TurnLoop ==
  /\ schedCalls \in {streamCalls - 1, streamCalls}
  /\ streamCalls \in {Len(requested), Len(requested) + 1}
  /\ outcome = "done" =>
       /\ pc = "idle"
       /\ Len(requested) = streamCalls
       /\ schedCalls = streamCalls - 1
       /\ requested[streamCalls] = 0
  /\ \A n \in 1..Len(requested) :
       IF requested[n] = 0
         THEN /\ n = Len(requested)
              /\ streamCalls = n
              /\ schedCalls = n - 1
              /\ outcome = "done"
         ELSE /\ n = Len(requested) => outcome # "done"
              /\ schedCalls < n => \/ pc = "sched"
                                   \/ Ended /\ outcome = "decodeError"
              /\ (schedCalls >= n /\ streamCalls < n + 1) =>
                   \/ pc \in {"exec", "issue"}
                   \/ Ended /\ outcome = "toolError"

\* a send of two rounds: one tool call, then no request
C1_Witness ==
  /\ outcome = "done"
  /\ requested = << 1, 0 >>
  /\ streamCalls = 2
  /\ schedCalls = 1

\* C2: at most one stream or scheduler invocation of the send is open; a
\* streaming call is issued only after every earlier stream was consumed to
\* its end and every earlier scheduler invocation settled with all of its
\* tools finished; nothing is open once the send has completed.
C2_Sequential ==
  /\ Cardinality(openStreams) + Cardinality(openSched) <= 1
  /\ openStreams \subseteq {streamCalls}
  /\ openSched \subseteq {streamCalls}
  /\ Len(requested) >= streamCalls - 1
  /\ Len(completed) >= streamCalls - 1
  /\ \A n \in 1..Len(completed) :
       \A i \in 1..Len(completed[n]) : completed[n][i] # Pending
  /\ \A i \in 1..Len(delivered) :
       delivered[i].rnd < streamCalls =>
         i <= Len(yielded) /\ yielded[i] = delivered[i]
  /\ outcome = "done" => openStreams = {} /\ openSched = {}

\* a completed send of two rounds whose first round ran two tools
C2_Witness ==
  /\ outcome = "done"
  /\ streamCalls = 2
  /\ Len(completed) = 1
  /\ Len(completed[1]) = 2

\* C3: what the caller received is what the backend delivered, event for
\* event and in the same order; only the event in hand is not yet yielded.
C3_PassThrough ==
  /\ Len(yielded) <= Len(delivered)
  /\ \A i \in 1..Len(yielded) : yielded[i] = delivered[i]
  /\ Len(delivered) - Len(yielded) = (IF pc = "yield" THEN 1 ELSE 0)
  /\ \A i, j \in 1..Len(yielded) : i < j => yielded[i].rnd <= yielded[j].rnd

\* two rounds, the second delivering an event that is neither content nor
\* a tool-call request
C3_Witness ==
  /\ outcome = "done"
  /\ Len(yielded) = 2
  /\ yielded[1].rnd = 1
  /\ yielded[2].rnd = 2
  /\ yielded[2].type = "ChatCompressed"

\* C4: the first streaming call gets the prompt; the streaming call after a
\* round gets exactly one response part per request of that round, the part
\* of the completion the scheduler returned for it, in request order.
C4_ResponsesInRequestOrder ==
  \A n \in 1..Len(inputs) :
    IF n = 1 THEN inputs[n] = << [text |-> "prompt"] >>
    ELSE /\ Len(completed) >= n - 1
         /\ Len(inputs[n]) = Len(RequestsOf(n - 1))
         /\ Len(inputs[n]) = Len(completed[n - 1])
         /\ \A i \in 1..Len(inputs[n]) :
              /\ inputs[n][i].functionResponse.id = RequestsOf(n - 1)[i].id
              /\ completed[n - 1][i].responseParts = << inputs[n][i] >>

\* a batch of two requests answered differently, fed to the second round
C4_Witness ==
  /\ Len(inputs) = 2
  /\ Len(inputs[2]) = 2
  /\ inputs[2][1].functionResponse.output
       # inputs[2][2].functionResponse.output

C6_InitializedBeforeStreaming ==
  /\ \A t \in Tools : calls.register[t] <= 1
  /\ calls.skills <= 1
  /\ calls.streams > 0 =>
       /\ initialized
       /\ skillsLoaded
       /\ calls.skills = 1
       /\ Names(registry) = Tools
       /\ \A t \in Tools : calls.register[t] = 1

\* C7: when the session id of a stored record was supplied, the transcript
\* has been seeded from that record, once, before any backend streaming
\* call, and the seed is the head of the transcript ever after.
C7_ResumedBeforeStreaming ==
  /\ calls.resume <= 1
  /\ (ResumeTarget # 0 /\ calls.streams > 0) =>
       /\ calls.resume = 1
       /\ Len(history) >= Len(ResumedHistory)
       /\ SubSeq(history, 1, Len(ResumedHistory)) = ResumedHistory

\* C8: a send the stream error ended is over: the scheduler was not invoked
\* for the failing round, the round requested nothing, no stream is open,
\* and everything delivered before the error is with the caller.
C8_StreamErrorPropagates ==
  outcome = "streamError" =>
    /\ pc = "idle"
    /\ schedCalls = streamCalls - 1
    /\ Len(requested) = streamCalls - 1
    /\ Len(inputs) = streamCalls
    /\ openStreams = {}
    /\ openSched = {}
    /\ yielded = delivered

\* the stream of the second round raises after an event was yielded
C8_Witness ==
  /\ outcome = "streamError"
  /\ streamCalls = 2
  /\ Len(yielded) = 2
  /\ yielded[2].rnd = 2

\* the response part fed back for a run, if its round was followed by a
\* streaming call
FedBack(r) ==
  { inputs[r.round + 1][i] : i \in
      { j \in 1..(IF r.round < Len(inputs) THEN Len(inputs[r.round + 1])
                   ELSE 0) :
          inputs[r.round + 1][j].functionResponse.id = r.callId } }

ThrewConvertible(r) ==
  /\ r.outcome.kind = "throw"
  /\ \/ ToolDefs[r.name].sendErrorsToModel = "true"
     \/ r.outcome.cls = "ToolError"

ThrewOther(r) ==
  /\ r.outcome.kind = "throw"
  /\ ToolDefs[r.name].sendErrorsToModel # "true"
  /\ r.outcome.cls # "ToolError"

\* C9: a throw of a tool that sends errors to the model, or of a ToolError,
\* yields an error-flagged result whose model-visible and display text are
\* "Error: <message>"; it does not end the send, and the streaming call
\* after its round carries that text as the response of the call.
C9_ErrorSentToModel ==
  /\ \A r \in runs :
       ThrewConvertible(r) =>
         /\ r.result.tag = "result"
         /\ r.result.llmContent = "Error: " \o r.outcome.text
         /\ r.result.returnDisplay = "Error: " \o r.outcome.text
         /\ r.result.error # "none"
         /\ r.round < streamCalls =>
              /\ Cardinality(FedBack(r)) = 1
              /\ \A part \in FedBack(r) :
                   /\ part.functionResponse.output
                        = "Error: " \o r.outcome.text
                   /\ part.functionResponse.error # "none"
                   /\ part.functionResponse.name = r.name
  /\ outcome = "toolError" => \E r \in runs : ThrewOther(r)

\* save_note, declared without the flag, threw a ToolError in round 1 and
\* the send went on to complete
C9_Witness ==
  /\ outcome = "done"
  /\ streamCalls = 2
  /\ \E r \in runs :
       /\ r.name = "save_note"
       /\ r.outcome.cls = "ToolError"
       /\ r.round = 1
       /\ FedBack(r) # {}

\* C10: any other throw is not converted; it ends the send with the error,
\* in the round of the throw: nothing of that round is fed to the backend
\* and no further streaming call is made.
C10_OtherErrorAborts ==
  \A r \in runs :
    ThrewOther(r) =>
      /\ r.result.tag = "throw"
      /\ outcome = "toolError"
      /\ pc = "idle"
      /\ streamCalls = r.round
      /\ Len(inputs) = r.round
      /\ Len(completed) = r.round - 1
      /\ FedBack(r) = {}
      /\ openSched = {}

\* in a batch of two, lookup had returned when save_note threw an Error
C10_Witness ==
  /\ outcome = "toolError"
  /\ Cardinality(runs) = 2
  /\ \E r \in runs : r.result.tag = "throw" /\ r.outcome.cls = "Error"
  /\ \E r \in runs : r.result.tag = "result" /\ r.round = streamCalls

(***************************************************************************)
(* Sub-agent tools.  The application defines tools with defineSubAgent or  *)
(* loads them from a directory, and the scheduler invokes them one at a    *)
(* time, each invocation with its own parameters and Session Context.      *)
(***************************************************************************)
ActiveModels == {"pro", "flash"}

Call(op, arg) == [op |-> op, n |-> inv.n, arg |-> arg]

\* const tool = defineSubAgent(options)
DefineSubAgent ==
  /\ inv.pc \in {"idle", "done"}
  /\ \E o \in SubAgentOptions :
       /\ defineSubAgent(o) \notin subagents
       /\ subagents' = subagents \cup {defineSubAgent(o)}
       /\ trace' = DefinitionCalls(o)
  /\ inv' = [NoInv EXCEPT !.n = inv.n]
  /\ parent' = [parent EXCEPT !.atDefinition = parent.activeModel]
  /\ UNCHANGED << agentSide, reported, loaded, stored, derived, ran, a2a >>

\* const tools = await loadSubAgents(dir)
LoadSubAgents ==
  /\ inv.pc \in {"idle", "done"}
  /\ ~loaded.done
  /\ \E dir \in Dirs :
       LET out == loadSubAgents(dir)
       IN /\ loaded' = [dir |-> dir, tools |-> out.tools, done |-> TRUE]
          /\ reported' = reported \o out.console
          /\ subagents' =
               subagents \cup {out.tools[i] : i \in 1..Len(out.tools)}
  /\ trace' = <<>>
  /\ inv' = [NoInv EXCEPT !.n = inv.n]
  /\ parent' = [parent EXCEPT !.atDefinition = parent.activeModel]
  /\ UNCHANGED << agentSide, stored, derived, ran, a2a >>

\* the first step of the tool's action
FirstStep(tool) ==
  IF tool.kind = "remote" THEN "createClient"
  ELSE IF tool.path = "dynamic" THEN "resolveSystemPrompt"
  ELSE "execute"

\* tool.action(params, ctx): the scheduler invokes a sub-agent tool
Invoke ==
  /\ inv.pc \in {"idle", "done"}
  /\ inv.n < MaxInvocations
  /\ \E tool \in subagents, params \in SubParams :
       inv' = [NoInv EXCEPT
                 !.pc = FirstStep(tool), !.n = inv.n + 1, !.tool = tool,
                 !.params = params, !.def = tool.def,
                 !.ctx = [round |-> inv.n + 1,
                          activeModel |-> parent.activeModel]]
  /\ trace' = <<>>
  /\ parent' = [parent EXCEPT !.atInvocation = Append(@, parent.activeModel)]
  /\ UNCHANGED << agentSide, subagents, reported, loaded, stored, derived, ran, a2a >>

\* The parent's active model changes between two invocations (the caller
\* sets another model, or the core falls back to one)
SetActiveModel ==
  /\ inv.pc \in {"idle", "done"}
  /\ \E m \in ActiveModels \ {parent.activeModel} :
       parent' = [parent EXCEPT !.activeModel = m]
  /\ UNCHANGED << agentSide, subagents, reported, loaded, inv, trace, stored,
                  derived, ran, a2a >>

\* await resolvePromptValue(options.systemPrompt, params, ctx)
ResolveSystemPrompt ==
  /\ inv.pc = "resolveSystemPrompt"
  /\ LET value == inv.tool.options.systemPrompt
     IN /\ inv' = [inv EXCEPT
                     !.systemPrompt =
                        resolvePromptValue(value, inv.params, inv.ctx),
                     !.pc = "resolveQuery"]
        /\ trace' = IF IsResolver(value)
                      THEN Append(trace, Call("resolver",
                             resolvePromptValue(value, inv.params, inv.ctx)))
                      ELSE trace
  /\ UNCHANGED << agentSide, subagents, reported, loaded, stored, derived, ran,
                  parent, a2a >>

\* options.query !== undefined ? await resolvePromptValue(...) : undefined
ResolveQuery ==
  /\ inv.pc = "resolveQuery"
  /\ LET value == inv.tool.options.query
     IN /\ inv' = [inv EXCEPT
                     !.query = IF value.kind # "undefined"
                                 THEN resolvePromptValue(value, inv.params,
                                                         inv.ctx)
                                 ELSE Undefined,
                     !.pc = "build"]
        /\ trace' = IF IsResolver(value)
                      THEN Append(trace, Call("resolver",
                             resolvePromptValue(value, inv.params, inv.ctx)))
                      ELSE trace
  /\ UNCHANGED << agentSide, subagents, reported, loaded, stored, derived, ran,
                  parent, a2a >>

\* const def = buildLocalAgentDef(options, resolvedSystemPrompt, resolvedQuery)
BuildDef ==
  /\ inv.pc = "build"
  /\ inv' = [inv EXCEPT
               !.def = buildLocalAgentDef(inv.tool.options, inv.systemPrompt,
                                          inv.query),
               !.pc = "execute"]
  /\ trace' = Append(trace, Call("buildLocalAgentDef", inv'.def))
  /\ UNCHANGED << agentSide, subagents, reported, loaded, stored, derived, ran,
                  parent, a2a >>

\* executeLocalAgent(def, params, ctx): register the model alias, create the
\* executor, run it on a signal of its own, and turn its end into the result
ExecuteLocalAgent ==
  /\ inv.pc = "execute"
  /\ \E run \in ExecutorRuns :
       /\ inv' = [inv EXCEPT !.result = executeLocalAgent(inv.def, run),
                             !.pc = "done"]
       /\ trace' = trace \o
            << Call("registerRuntimeModelConfig",
                    [alias |-> inv.def.name \o "-config",
                     model |-> AliasModel(inv.def, inv.ctx)]),
               Call("LocalAgentExecutor.create", inv.def),
               Call("run", [params |-> inv.params, signal |-> "fresh",
                            terminate_reason |-> run.terminate_reason]) >>
  /\ UNCHANGED << agentSide, subagents, reported, loaded, stored, derived, ran,
                  parent, a2a >>

\* getClientFactory(): the factory is made once and kept for every remote
\* agent
getClientFactory(state) ==
  IF state.factory THEN state
  ELSE [state EXCEPT !.factory = TRUE, !.factories = @ + 1]

\* await factory.createFromUrl(def.agentCardUrl, ""): a client is made for
\* the URL by each call
createFromUrl(state, url) == [state EXCEPT !.created = Append(@, url)]

\* const client = await getClientFactory().createFromUrl(def.agentCardUrl, "")
CreateClient ==
  /\ inv.pc = "createClient"
  /\ inv' = [inv EXCEPT !.pc = "sendMessage"]
  /\ trace' = Append(trace, Call("createFromUrl", inv.tool.agentCardUrl))
  /\ a2a' = createFromUrl(getClientFactory(a2a), inv.tool.agentCardUrl)
  /\ UNCHANGED << agentSide, subagents, reported, loaded, stored, derived, ran,
                  parent >>

\* const result = await client.sendMessage(...); extractTextFromResult(result)
SendMessage ==
  /\ inv.pc = "sendMessage"
  /\ \E response \in A2AResponses :
       /\ inv' = [inv EXCEPT
                    !.result = [kind |-> "return", cls |-> "string",
                                text |-> extractTextFromResult(response)],
                    !.pc = "done"]
       /\ trace' = trace \o
            << Call("sendMessage", SendParams(inv.params)),
               Call("response", response) >>
  /\ UNCHANGED << agentSide, subagents, reported, loaded, stored, derived, ran,
                  parent, a2a >>

\* Sub-agents defined in the program
NextLocalAgents ==
  \/ SetActiveModel
  \/ DefineSubAgent
  \/ Invoke
  \/ ResolveSystemPrompt
  \/ ResolveQuery
  \/ BuildDef
  \/ ExecuteLocalAgent

SpecLocalAgents == InitLib /\ [][NextLocalAgents]_vars

\* Sub-agents loaded from a directory
NextLoadedAgents ==
  \/ LoadSubAgents
  \/ Invoke
  \/ ExecuteLocalAgent
  \/ CreateClient
  \/ SendMessage

SpecLoadedAgents == InitLib /\ [][NextLoadedAgents]_vars

(***************************************************************************)
(* The session library applied to what is on disk.                         *)
(***************************************************************************)
subVars == << subagents, reported, loaded, inv, trace, parent, a2a >>

\* const sessions = await listSessions(config)
ReadListing ==
  /\ derived.op = "none"
  /\ derived' = [op |-> "listSessions", sessions |-> listSessions(stored.dir),
                 history |-> <<>>]
  /\ UNCHANGED << agentSide, subVars, stored, ran >>

SpecListing == InitListing /\ [][ReadListing]_vars

\* const history = messageRecordsToHistory(conversation.messages)
ReconstructHistory ==
  /\ derived.op = "none"
  /\ derived' = [op |-> "messageRecordsToHistory", sessions |-> <<>>,
                 history |-> messageRecordsToHistory(stored.messages)]
  /\ UNCHANGED << agentSide, subVars, stored, ran >>

SpecReconstruct == InitReconstruct /\ [][ReconstructHistory]_vars

\* The reconstructed turns are written back as a record ...
Reencode ==
  /\ derived.op = "messageRecordsToHistory"
  /\ \E asResults \in BOOLEAN :
       stored' = [stored EXCEPT !.messages =
                                  encodeTurns(derived.history, asResults)]
  /\ derived' = [derived EXCEPT !.op = "encoded"]
  /\ UNCHANGED << agentSide, subVars, ran >>

\* ... and the record is reconstructed again
ReconstructAgain ==
  /\ derived.op = "encoded"
  /\ derived' = [op |-> "again", sessions |-> <<>>,
                 history |-> messageRecordsToHistory(stored.messages)]
  /\ UNCHANGED << agentSide, subVars, stored, ran >>

NextReencode == ReconstructHistory \/ Reencode \/ ReconstructAgain

SpecReencode == InitReconstruct /\ [][NextReencode]_vars

(***************************************************************************)
(* A tool invocation run on its own: SdkToolInvocation.execute with an     *)
(* action that resolves to any value or throws.                            *)
(***************************************************************************)
MaxExecs == 2

Executed == IF ran.op = "execute" THEN ran.done ELSE <<>>

ExecuteInvocation ==
  /\ ran.op \in {"none", "execute"}
  /\ Len(Executed) < MaxExecs
  /\ \E t \in Tools, o \in ReturnValues :
       ran' = [op |-> "execute",
               done |-> Append(Executed,
                               [name |-> t, outcome |-> o,
                                result |-> Execute(ToolDefs[t], o)])]
  /\ UNCHANGED << agentSide, subVars, stored, derived >>

SpecExecute == InitLib /\ [][ExecuteInvocation]_vars

(***************************************************************************)
(* The filesystem capability of the Session Context (context.ts,           *)
(* AgentFsImpl).  The disk holds, per path, a file with its text, a        *)
(* directory or nothing; config.validatePathAccess answers per path and    *)
(* operation with an error text, or with nothing ("") when access is fine. *)
(***************************************************************************)
MaxFsCalls == 2

FsPaths == {"ws/notes.txt", "ws/new.txt", "ws/dir", "ro/readme", "etc/passwd"}

File(text) == [kind |-> "file", text |-> text]
Absent == [kind |-> "absent", text |-> ""]
Directory == [kind |-> "dir", text |-> ""]

Disk0 ==
  [p \in FsPaths |->
     IF p = "ws/notes.txt" THEN File("old")
     ELSE IF p = "ro/readme" THEN File("doc")
     ELSE IF p = "etc/passwd" THEN File("root")
     ELSE IF p = "ws/dir" THEN Directory
     ELSE Absent]

\* this.config.validatePathAccess(path, "read" | "write")
validatePathAccess(path, mode) ==
  IF path = "etc/passwd" THEN "Path not in workspace: " \o path
  ELSE IF path = "ro/readme" /\ mode = "write"
    THEN "Path is read-only: " \o path
  ELSE ""

\* fs.readFile(path, "utf-8") and fs.writeFile(path, content, "utf-8") raise
\* on what is no file
FsReadThrows(disk, path) == disk[path].kind # "file"
FsWriteThrows(disk, path) == disk[path].kind = "dir"

FsCall(fn, path, arg) == [fn |-> fn, path |-> path, arg |-> arg]

FsNull == [kind |-> "return", cls |-> "null", text |-> ""]
FsVoid == [kind |-> "return", cls |-> "undefined", text |-> ""]

\* AgentFsImpl.readFile: the calls it makes, what it returns, the disk after
readFile(disk, path) ==
  LET error == validatePathAccess(path, "read")
      asked == << FsCall("validatePathAccess", path, "read") >>
  IN IF error # ""
       THEN [calls |-> asked, result |-> FsNull, disk |-> disk]
       ELSE [calls |-> Append(asked, FsCall("fs.readFile", path, "utf-8")),
             result |-> IF FsReadThrows(disk, path) THEN FsNull
                        ELSE [kind |-> "return", cls |-> "string",
                              text |-> disk[path].text],
             disk |-> disk]

\* faulty variant: the file is written before the validator is asked
writeFile_WriteFirst(disk, path, content) ==
  LET error == validatePathAccess(path, "write")
      made == << FsCall("fs.writeFile", path, content),
                 FsCall("validatePathAccess", path, "write") >>
      written == IF FsWriteThrows(disk, path) THEN disk
                 ELSE [disk EXCEPT ![path] = File(content)]
  IN [calls |-> made,
      result |-> IF error # ""
                   THEN [kind |-> "throw", cls |-> "Error", text |-> error]
                   ELSE FsVoid,
      disk |-> written]

\* AgentFsImpl.writeFile
writeFile(disk, path, content) ==
  LET error == validatePathAccess(path, "write")
      asked == << FsCall("validatePathAccess", path, "write") >>
  IN IF error # ""
       THEN [calls |-> asked,
             result |-> [kind |-> "throw", cls |-> "Error", text |-> error],
             disk |-> disk]
       ELSE [calls |-> Append(asked, FsCall("fs.writeFile", path, content)),
             result |-> IF FsWriteThrows(disk, path)
                          THEN [kind |-> "throw", cls |-> "SystemError",
                                text |-> "EISDIR"]
                          ELSE FsVoid,
             disk |-> IF FsWriteThrows(disk, path) THEN disk
                      ELSE [disk EXCEPT ![path] = File(content)]]

FsIdle == [op |-> "fs", disk |-> Disk0, done |-> <<>>]

\* await ctx.fs.readFile(path)
ReadFile ==
  /\ ran.op = "fs"
  /\ Len(ran.done) < MaxFsCalls
  /\ \E path \in FsPaths :
       LET out == readFile(ran.disk, path)
       IN ran' = [ran EXCEPT
                    !.disk = out.disk,
                    !.done = Append(@, [op |-> "readFile", path |-> path,
                                        content |-> "", before |-> ran.disk,
                                        calls |-> out.calls,
                                        result |-> out.result,
                                        after |-> out.disk])]
  /\ UNCHANGED << agentSide, subVars, stored, derived >>

\* await ctx.fs.writeFile(path, content)
WriteFile ==
  /\ ran.op = "fs"
  /\ Len(ran.done) < MaxFsCalls
  /\ \E path \in FsPaths, content \in {"new", ""} :
       LET out == writeFile(ran.disk, path, content)
       IN ran' = [ran EXCEPT
                    !.disk = out.disk,
                    !.done = Append(@, [op |-> "writeFile", path |-> path,
                                        content |-> content,
                                        before |-> ran.disk,
                                        calls |-> out.calls,
                                        result |-> out.result,
                                        after |-> out.disk])]
  /\ UNCHANGED << agentSide, subVars, stored, derived >>

InitFs ==
  /\ AgentInit
  /\ options = [instructions |-> "string", sessionId |-> "none",
               tools |-> Tools]
  /\ LibIdle
  /\ SessionIdle
  /\ ran = FsIdle

SpecFs == InitFs /\ [][ReadFile \/ WriteFile]_vars

(***************************************************************************)
(* The shell capability of the Session Context (context.ts,                *)
(* AgentShellImpl).  The policy check of the core's shell tool either      *)
(* asks for no confirmation, asks for one, or raises (when the invocation  *)
(* is built or when it is asked); the execution service runs the command   *)
(* and reports its output and exit code.                                   *)
(***************************************************************************)
MaxShellCalls == 2

Commands == {"ls", "rm -rf build"}
WorkingDir == "/work"
CwdOptions == {"undefined", "/tmp"}
PolicyChecks == {"noConfirmation", "confirmation", "buildThrows",
                 "confirmThrows"}
ShellRuns ==
  { [output |-> "a.txt", exitCode |-> 0],
    [output |-> "no such file", exitCode |-> 1],
    [output |-> "", exitCode |-> 2] }
NoRun == [output |-> "", exitCode |-> 0]

ShellCall(fn, command, cwd) == [fn |-> fn, command |-> command, cwd |-> cwd]

\* faulty variant: a check that raises lets the command through
canExecute_FailOpen(command, cwd, check) ==
  [calls |->
     << ShellCall("shellTool.build", command, cwd) >>
     \o (IF check = "buildThrows" THEN <<>>
         ELSE << ShellCall("shouldConfirmExecute", command, cwd) >>),
   allowed |-> check # "confirmation"]

\* AgentShellImpl.canExecute: return !confirmation, false when it raises
canExecute(command, cwd, check) ==
  [calls |->
     << ShellCall("shellTool.build", command, cwd) >>
     \o (IF check = "buildThrows" THEN <<>>
         ELSE << ShellCall("shouldConfirmExecute", command, cwd) >>),
   allowed |-> check = "noConfirmation"]

Blocked ==
  [stdout |-> "",
   stderr |-> "Command execution requires confirmation but no interactive session is available.",
   exitCode |-> 1, error |-> "Command blocked by policy"]

\* AgentShellImpl.exec: the calls it makes and the ShellResult it returns
exec(command, cwdOption, check, run) ==
  LET cwd == IF cwdOption = "undefined" THEN WorkingDir ELSE cwdOption
      policy == canExecute(command, cwd, check)
  IN IF ~policy.allowed
       THEN [calls |-> policy.calls, result |-> Blocked]
       ELSE [calls |-> Append(policy.calls,
                              ShellCall("ShellExecutionService.execute",
                                        command, cwd)),
             result |-> [stdout |-> run.output, stderr |-> "",
                         exitCode |-> run.exitCode, error |-> "none"]]

ShellIdle == [op |-> "shell", done |-> <<>>]

\* await ctx.shell.exec(command, options)
Exec ==
  /\ ran.op = "shell"
  /\ Len(ran.done) < MaxShellCalls
  /\ \E command \in Commands, cwdOption \in CwdOptions,
        check \in PolicyChecks, run \in ShellRuns \cup {NoRun} :
       LET out == exec(command, cwdOption, check, run)
       IN /\ (check = "noConfirmation") <=> (run \in ShellRuns)
          /\ ran' = [ran EXCEPT
                       !.done = Append(@, [command |-> command,
                                           cwdOption |-> cwdOption,
                                           check |-> check,
                                           run |-> run,
                                           calls |-> out.calls,
                                           result |-> out.result])]
  /\ UNCHANGED << agentSide, subVars, stored, derived >>

InitShell ==
  /\ AgentInit
  /\ options = [instructions |-> "string", sessionId |-> "none",
               tools |-> Tools]
  /\ LibIdle
  /\ SessionIdle
  /\ ran = ShellIdle

SpecShell == InitShell /\ [][Exec]_vars

(***************************************************************************)
(* The scoped registry on its own: a live registry holding any of the      *)
(* supplied tools and any tools of the core, looked up by name directly    *)
(* and through the scoped registry built for a context.                    *)
(***************************************************************************)
MaxLookups == 2

CoreTools == {"read_file", "activate_skill"}
LookupNames == Tools \cup CoreTools \cup {"unknown"}

LiveRegistries ==
  {sdk \cup core :
     sdk \in SUBSET {SdkTool(t, NoCtx, "registered") : t \in Tools},
     core \in SUBSET {CoreTool(n) : n \in CoreTools}}

LookupContexts ==
  {[sessionId |-> SessionId, transcript |-> <<>>, round |-> r, send |-> 1] :
     r \in 1..2}

\* const scopedRegistry = this.buildScopedRegistry(ctx);
\* originalRegistry.getTool(name) beside scopedRegistry.getTool(name)
GetTool ==
  /\ ran.op = "registry"
  /\ ran.n < MaxLookups
  /\ \E name \in LookupNames, context \in LookupContexts :
       ran' = [ran EXCEPT
                 !.n = @ + 1,
                 !.name = name,
                 !.context = context,
                 !.direct = getTool(ran.live, name),
                 !.scoped = scopedGetTool(ran.live, name, context)]
  /\ UNCHANGED << agentSide, subVars, stored, derived >>

InitRegistry ==
  /\ AgentInit
  /\ options = [instructions |-> "string", sessionId |-> "none",
               tools |-> Tools]
  /\ LibIdle
  /\ SessionIdle
  /\ ran \in [op : {"registry"}, live : LiveRegistries, n : {0},
             name : {"-"}, context : {NoCtx}, direct : {NoTool},
             scoped : {NoTool}]

SpecRegistry == InitRegistry /\ [][GetTool]_vars

\* C11: every streaming call and every scheduler invocation of a send was
\* handed the signal of that send; once the signal has fired and the stream
\* that was open (or the next to open) has been aborted, no further
\* streaming call is made, and what the caller had received when the signal
\* fired is still the head of what it has received.
C11_Cancellation ==
  /\ \A r \in 1..streamCalls :
       [to |-> "stream", round |-> r, signal |-> abortSignal.src] \in handed
  /\ \A r \in 1..schedCalls :
       [to |-> "scheduler", round |-> r, signal |-> abortSignal.src]
         \in handed
  /\ \A h \in handed : h.signal = abortSignal.src
  /\ abortSignal.aborted =>
       /\ streamCalls <= abortSignal.firedIn
       /\ Len(yielded) >= Len(abortSignal.had)
       /\ SubSeq(yielded, 1, Len(abortSignal.had)) = abortSignal.had

\* the calls of the trace made with operation op, in order
CallsOf(op) == SelectSeq(trace, LAMBDA c : c.op = op)

\* the position of the first call of operation op in the trace, 0 when none
FirstCall(op) ==
  IF \E i \in 1..Len(trace) : trace[i].op = op
    THEN CHOOSE i \in 1..Len(trace) :
           trace[i].op = op /\ \A j \in 1..(i - 1) : trace[j].op # op
    ELSE 0

LocalDone == inv.pc = "done" /\ inv.tool.kind = "local"

\* how the nested executor of the finished invocation terminated
RunReason == CallsOf("run")[1].arg.terminate_reason

\* C12: a finished local sub-agent invocation returned a string exactly when
\* its executor terminated with the goal reason; for every other reason it
\* threw a ToolError whose message is
\* Sub-agent "<name>" terminated: <reason code>.
C12_OnlyGoalSucceeds ==
  LocalDone =>
    /\ Len(CallsOf("run")) = 1
    /\ (inv.result.kind = "return") <=> (RunReason = "GOAL")
    /\ RunReason = "GOAL" => inv.result.cls = "string"
    /\ RunReason # "GOAL" =>
         /\ inv.result.kind = "throw"
         /\ inv.result.cls = "ToolError"
         /\ inv.result.text =
              "Sub-agent \"" \o inv.tool.name \o "\" terminated: "
                \o RunReason

C12_Witness ==
  /\ LocalDone
  /\ RunReason = "MAX_TURNS"
  /\ inv.result.kind = "throw"
  /\ inv.tool.name = "writer"

\* the prompt values of the invoked tool that are resolver functions
ResolversOf(tool) ==
  {v \in {tool.options.systemPrompt, tool.options.query} : IsResolver(v)}

\* the calls of this invocation to the resolver v
ResolverCalls(v) ==
  SelectSeq(trace, LAMBDA c : c.op = "resolver" /\ c.arg.by = v.text)

RemoteDone == inv.pc = "done" /\ inv.tool.kind = "remote"

\* what the remote agent answered in the finished invocation
Answer == CallsOf("response")[1].arg

\* the first k of the texts, each after the first on a line of its own
RECURSIVE LinesUpTo(_, _)
LinesUpTo(texts, k) ==
  IF k = 0 THEN ""
  ELSE IF k = 1 THEN texts[1]
  ELSE LinesUpTo(texts, k - 1) \o "\n" \o texts[k]

\* C13: a finished remote invocation returned, as a value and not as an
\* error, the texts of the text parts of the answer in order, one per line:
\* those of the message's parts, or of the task's status message's parts;
\* the empty string when there is no such part, no status or no message.
C13_RemoteText ==
  RemoteDone =>
    LET parts == IF Answer.kind = "message" \/ Answer.status = "message"
                   THEN Answer.parts ELSE <<>>
        at == {i \in 1..Len(parts) : parts[i].kind = "text"}
        texts == [k \in 1..Cardinality(at) |->
                    parts[CHOOSE i \in at :
                            Cardinality({j \in at : j <= i}) = k].text]
    IN /\ inv.result.kind = "return"
       /\ inv.result.text = LinesUpTo(texts, Len(texts))
       /\ at = {} => inv.result.text = ""

C13_Witness ==
  /\ RemoteDone
  /\ Answer.kind = "task"
  /\ Answer.parts = << [kind |-> "text", text |-> "alpha"],
                       [kind |-> "text", text |-> "beta"] >>
  /\ inv.result.text = "alpha\nbeta"

\* the text each parameter object is to be sent as
ExpectedText(params) ==
  IF params = << << "query", Str("find X") >> >> THEN "find X"
  ELSE IF params = << << "query", Null >> >> THEN ""
  ELSE IF params = << << "query", Num("42") >> >> THEN "42"
  ELSE IF params = <<>> THEN "{}"
  ELSE "{\"topic\":\"tla\",\"depth\":2}"

Defining == {f \in loaded.dir : f.yields \in {"local", "remote"}}
Failing == {f \in loaded.dir : f.yields = "error"}

\* C16: the load of a directory returned one tool for each file that gave a
\* local or a remote definition, of that kind and with its name, in file
\* order, and no other tool; every file that failed to load was reported
\* and the tools of the others were returned all the same.
C16_OneToolPerDefinition ==
  loaded.done =>
    /\ Len(loaded.tools) = Cardinality(Defining)
    /\ \A f \in Defining :
         Cardinality({i \in 1..Len(loaded.tools) :
                        /\ loaded.tools[i].name = f.name
                        /\ loaded.tools[i].kind = f.yields}) = 1
    /\ \A i, j \in 1..Len(loaded.tools) :
         i < j => \E f, g \in Defining :
                    /\ f.path < g.path
                    /\ loaded.tools[i].name = f.name
                    /\ loaded.tools[j].name = g.name
    /\ Len(reported) = Cardinality(Failing)
    /\ \A f \in Failing :
         \E i \in 1..Len(reported) : reported[i].filePath = f.path
    /\ \A i \in 1..Len(loaded.tools) : loaded.tools[i] \in subagents

C16_Witness ==
  /\ loaded.done
  /\ Cardinality(Failing) = 1
  /\ Cardinality(Defining) = 2
  /\ \E i, j \in 1..Len(loaded.tools) :
       loaded.tools[i].kind = "local" /\ loaded.tools[j].kind = "remote"
  /\ Len(reported) = 1

Listed == derived.op = "listSessions"

\* the session records of the directory that decode
Decodable == {f \in stored.dir.files : f.prefix /\ f.json /\ f.decodes}
Corrupt == {f \in stored.dir.files : f.prefix /\ f.json /\ ~f.decodes}

\* C17: the listing of a directory has one SessionInfo for each file with
\* the prefix and the .json suffix that decodes, none for any other file,
\* in descending order of file name; it is the listing the directory gives
\* without its corrupt files, and a missing directory gives the empty list.
C17_ListingOfDecodable ==
  Listed =>
    LET out == derived.sessions
    IN /\ Len(out) = Cardinality(Decodable)
       /\ \A f \in Decodable :
            Cardinality({i \in 1..Len(out) :
                           /\ out[i].filePath = f.ord
                           /\ out[i].sessionId = f.sessionId
                           /\ out[i].messageCount = Len(f.messages)}) = 1
       /\ \A i \in 1..Len(out) : \E f \in Decodable : out[i].filePath = f.ord
       /\ \A i, j \in 1..Len(out) :
            i < j => out[i].filePath > out[j].filePath
       /\ out = listSessions([stored.dir EXCEPT !.files = @ \ Corrupt])
       /\ ~stored.dir.exists => out = <<>>

C17_Witness ==
  /\ Listed
  /\ Cardinality(stored.dir.files) = 3
  /\ Cardinality(Corrupt) = 1
  /\ \E f \in Corrupt : f.ord = 2
  /\ Len(derived.sessions) = 2
  /\ derived.sessions[1].filePath = 3
  /\ derived.sessions[2].filePath = 1

Reconstructed == derived.op = "messageRecordsToHistory"

\* the turns of the first k entries, entry by entry
RECURSIVE TurnsUpTo(_, _)
TurnsUpTo(messages, k) ==
  IF k = 0 THEN <<>>
  ELSE TurnsUpTo(messages, k - 1)
         \o messageRecordsToHistory(<< messages[k] >>)

\* every part of every turn of a history
PartsIn(turns) ==
  UNION { {turns[i].parts[j] : j \in 1..Len(turns[i].parts)} :
            i \in 1..Len(turns) }

\* C18: the reconstruction holds no part made of an info, warning or error
\* entry and is what the entries give once these are removed; it is the
\* turns of the entries one after the other in the order of the entries.
C18_AnnotationsDropped ==
  Reconstructed =>
    LET messages == stored.messages
        kept == SelectSeq(messages,
                  LAMBDA m : m.type \notin {"info", "warning", "error"})
    IN /\ derived.history = messageRecordsToHistory(kept)
       /\ \A i \in 1..Len(messages) :
            messages[i].type \in {"info", "warning", "error"} =>
              /\ [text |-> messages[i].content.v] \notin PartsIn(derived.history)
              /\ messageRecordsToHistory(<< messages[i] >>) = <<>>
       /\ kept = <<>> => derived.history = <<>>
       /\ derived.history = TurnsUpTo(messages, Len(messages))

C18_Witness ==
  /\ Reconstructed
  /\ Len(stored.messages) = 2
  /\ stored.messages[1].type = "error"
  /\ stored.messages[2].type = "user"
  /\ derived.history = << [role |-> "user", parts |-> << [text |-> "hi"] >>] >>

\* the gemini entries of the record and the model turns of the history
ModelEntries == SelectSeq(stored.messages, LAMBDA m : m.type = "gemini")
ModelTurns == SelectSeq(derived.history, LAMBDA t : t.role = "model")

\* the parts a model entry is to be replayed with
ExpectedModelParts(m) ==
  normalizeParts(m.content)
    \o [i \in 1..Len(m.toolCalls) |->
          [functionCall |-> [id |-> m.toolCalls[i].id,
                             name |-> m.toolCalls[i].name,
                             args |-> m.toolCalls[i].args]]]

\* C19 as stated: the model turns of the reconstruction are, in order, one
\* for every model entry, each with the entry's content parts followed by a
\* function-call part per tool call.
C19_AsStated ==
  Reconstructed =>
    /\ Len(ModelTurns) = Len(ModelEntries)
    /\ \A k \in 1..Len(ModelEntries) :
         k <= Len(ModelTurns) =>
           ModelTurns[k].parts = ExpectedModelParts(ModelEntries[k])

\* a model entry with neither content nor tool calls
Hollow(m) == normalizeParts(m.content) = <<>> /\ m.toolCalls = <<>>

\* C19: the model turns of the reconstruction are, in order, one for every
\* model entry that has content or a tool call, each with the entry's content
\* parts followed by a function-call part per tool call, in recorded order
\* and with the call's id, name and arguments; a model entry with neither
\* content nor tool calls gives no turn.
C19_ModelTurnPerEntry ==
  Reconstructed =>
    LET solid == SelectSeq(ModelEntries, LAMBDA m : ~Hollow(m))
    IN /\ Len(ModelTurns) = Len(solid)
       /\ \A k \in 1..Len(solid) :
            /\ ModelTurns[k].parts = ExpectedModelParts(solid[k])
            /\ Len(ModelTurns[k].parts) > 0
       /\ \A i \in 1..Len(stored.messages) :
            (stored.messages[i].type = "gemini" /\ Hollow(stored.messages[i]))
              => messageRecordsToHistory(<< stored.messages[i] >>) = <<>>

C19_Witness ==
  /\ Reconstructed
  /\ Len(ModelEntries) = 2
  /\ Hollow(ModelEntries[1])
  /\ Len(ModelEntries[2].toolCalls) = 3
  /\ Len(ModelTurns) = 1
  /\ Len(ModelTurns[1].parts) = 3
  /\ ModelTurns[1].parts[3].functionCall.id = "c3"

\* the tool calls of an entry that carry a result, and their parts
Answered(m) == SelectSeq(m.toolCalls, LAMBDA tc : tc.result.k # "null")

RECURSIVE ResultPartsUpTo(_, _)
ResultPartsUpTo(answered, k) ==
  IF k = 0 THEN <<>>
  ELSE ResultPartsUpTo(answered, k - 1) \o normalizeParts(answered[k].result)

ExpectedResponse(m) == ResultPartsUpTo(Answered(m), Len(Answered(m)))

\* the turns of one entry end with a response turn right after a model turn
EndsWithResponse(turns) ==
  /\ Len(turns) = 2
  /\ turns[1].role = "model"
  /\ turns[2].role = "user"

CallIds(turn) ==
  {turn.parts[j].functionCall.id :
     j \in {n \in 1..Len(turn.parts) : IsCallPart(turn.parts[n])}}

AnswersOf(turn, id) ==
  {j \in 1..Len(turn.parts) :
     /\ "functionResponse" \in DOMAIN turn.parts[j]
     /\ turn.parts[j].functionResponse.id = id}

\* C22: in the reconstructed history, the function calls of a model entry
\* are either each matched by exactly one tool result carrying the call's
\* id in the response turn right after the model turn, with no other part
\* in that turn, or the entry has no response turn at all.
C22_CallsMatchedOrDropped ==
  Reconstructed =>
    /\ derived.history = TurnsUpTo(stored.messages, Len(stored.messages))
    /\ \A i \in 1..Len(stored.messages) :
         LET m == stored.messages[i]
             turns == messageRecordsToHistory(<< m >>)
         IN (m.type = "gemini" /\ EndsWithResponse(turns)) =>
              /\ \A id \in CallIds(turns[1]) :
                   Cardinality(AnswersOf(turns[2], id)) = 1
              /\ \A j \in 1..Len(turns[2].parts) :
                   /\ "functionResponse" \in DOMAIN turns[2].parts[j]
                   /\ turns[2].parts[j].functionResponse.id
                        \in CallIds(turns[1])

\* C23: a value an action returned is reported as a result without error
\* whose model-visible content and display are the same text: the value
\* itself when it is a string, its formatted JSON text otherwise.
C23_ReturnSerialized ==
  \A i \in 1..Len(Executed) :
    LET o == Executed[i].outcome
        r == Executed[i].result
    IN o.kind = "return" =>
         /\ r.tag = "result"
         /\ r.error = "none"
         /\ r.typeofOutput = "string"
         /\ r.llmContent = r.returnDisplay
         /\ o.cls = "string" => r.llmContent = o.text
         /\ o.cls = "number" => r.llmContent = "42"
         /\ o.cls = "null" => r.llmContent = "null"
         /\ o.cls = "object" => r.llmContent = "{\n  \"ok\": true\n}"

\* the first send has been rejected because refreshAuth or
\* config.initialize() raised
FirstSendInitFailed ==
  /\ calls.sends = 1
  /\ pc = "idle"
  /\ outcome = "initError"
  /\ ~initialized

\* C24: when credential resolution or backend configuration fails during
\* the first send, the send is rejected before any streaming call and any
\* yielded event, no tool is registered, and each initialization step was
\* tried once; the first send goes past initialization only when both
\* succeeded.
C24_InitFailureRejects ==
  /\ FirstSendInitFailed =>
       /\ streamCalls = 0
       /\ calls.streams = 0
       /\ yielded = <<>>
       /\ delivered = <<>>
       /\ registry = {}
       /\ \A t \in Tools : calls.register[t] = 0
       /\ calls.auth = 1
       /\ calls.configInit <= 1
       /\ calls.resume = 0
       /\ calls.skills = 0
  /\ (calls.sends = 1 /\ pc \notin {"idle", "init"}) => initialized

\* config.initialize() raised in the first send
C24_Witness ==
  /\ FirstSendInitFailed
  /\ contentGenerator
  /\ calls.configInit = 1

\* the alias registrations of the last invocation
Registered == CallsOf("registerRuntimeModelConfig")

\* C25: a finished invocation of a local sub-agent registered the alias
\* <name>-config once, with the parent's active model as it was at that
\* invocation when the sub-agent's model is "inherit", and with the
\* sub-agent's own model otherwise.
C25_InheritAtCallTime ==
  LocalDone =>
    /\ Len(Registered) = 1
    /\ Registered[1].arg.alias = inv.tool.name \o "-config"
    /\ Len(parent.atInvocation) = inv.n
    /\ inv.tool.options.model = "inherit" =>
         Registered[1].arg.model = parent.atInvocation[inv.n]
    /\ inv.tool.options.model # "inherit" =>
         Registered[1].arg.model = inv.tool.options.model

\* the second invocation of an inheriting sub-agent ran after the parent's
\* model had changed: it registered the new model, which is neither the one
\* active when the tool was defined nor the one of the first invocation
C25_Witness ==
  /\ LocalDone
  /\ inv.n = 2
  /\ inv.tool.options.model = "inherit"
  /\ parent.atDefinition = "pro"
  /\ parent.atInvocation = << "pro", "flash" >>
  /\ Registered[1].arg.model = "flash"

\* the calls to the filesystem capability made so far
FsDone == IF ran.op = "fs" THEN ran.done ELSE <<>>

Rejected(d) ==
  validatePathAccess(d.path, IF d.op = "readFile" THEN "read" ELSE "write")

\* C26: every readFile and writeFile first asks the validator about its
\* path and operation and touches the disk only after it; readFile on a
\* rejected path returns null without reading, writeFile on a rejected path
\* raises the validator's error and leaves the disk as it was, and readFile
\* returns null when the read itself fails.
C26_ValidatorBeforeAccess ==
  \A i \in 1..Len(FsDone) :
    LET d == FsDone[i]
        mode == IF d.op = "readFile" THEN "read" ELSE "write"
    IN /\ d.calls[1] = FsCall("validatePathAccess", d.path, mode)
       /\ \A k \in 2..Len(d.calls) : d.calls[k].fn # "validatePathAccess"
       /\ Len(d.calls) <= 2
       /\ Rejected(d) # "" =>
            /\ Len(d.calls) = 1
            /\ d.after = d.before
            /\ d.op = "readFile" => d.result = FsNull
            /\ d.op = "writeFile" =>
                 /\ d.result.kind = "throw"
                 /\ d.result.text = Rejected(d)
       /\ (Rejected(d) = "" /\ d.op = "readFile") =>
            /\ d.calls[2] = FsCall("fs.readFile", d.path, "utf-8")
            /\ d.after = d.before
            /\ d.result.kind = "return"
            /\ d.before[d.path].kind # "file" => d.result = FsNull
            /\ d.before[d.path].kind = "file" =>
                 d.result.text = d.before[d.path].text
       /\ (Rejected(d) = "" /\ d.op = "writeFile") =>
            d.calls[2] = FsCall("fs.writeFile", d.path, d.content)

\* a write to a read-only path was refused and a read of a missing file
\* gave null
C26_Witness ==
  /\ Len(FsDone) = 2
  /\ FsDone[1].op = "writeFile"
  /\ FsDone[1].path = "ro/readme"
  /\ FsDone[1].result.kind = "throw"
  /\ ran.disk["ro/readme"] = File("doc")
  /\ FsDone[2].op = "readFile"
  /\ FsDone[2].path = "ws/new.txt"
  /\ FsDone[2].result = FsNull

\* the calls to the shell capability made so far
ShellDone == IF ran.op = "shell" THEN ran.done ELSE <<>>

Executions(d) ==
  SelectSeq(d.calls, LAMBDA c : c.fn = "ShellExecutionService.execute")

\* C27: every exec first runs the policy check; when the check asks for a
\* confirmation or raises, the command is not executed and the result
\* returned is the blocked one (exit code 1, empty stdout, an error); when
\* the check asks for none, the command is executed exactly once, after the
\* check, in the directory of the check, and its output and exit code are
\* returned without an error.
C27_PolicyBeforeExec ==
  \A i \in 1..Len(ShellDone) :
    LET d == ShellDone[i]
        cwd == IF d.cwdOption = "undefined" THEN "/work" ELSE d.cwdOption
    IN /\ d.calls[1] = ShellCall("shellTool.build", d.command, cwd)
       /\ d.check # "noConfirmation" =>
            /\ Executions(d) = <<>>
            /\ d.result.exitCode = 1
            /\ d.result.stdout = ""
            /\ d.result.error = "Command blocked by policy"
       /\ d.check = "noConfirmation" =>
            /\ Executions(d) =
                 << ShellCall("ShellExecutionService.execute", d.command,
                              cwd) >>
            /\ d.calls[Len(d.calls)].fn = "ShellExecutionService.execute"
            /\ d.calls[2] = ShellCall("shouldConfirmExecute", d.command, cwd)
            /\ d.result.stdout = d.run.output
            /\ d.result.exitCode = d.run.exitCode
            /\ d.result.error = "none"

\* one command was blocked because the check raised, the next ran and
\* exited with code 1 of its own
C27_Witness ==
  /\ Len(ShellDone) = 2
  /\ ShellDone[1].check = "confirmThrows"
  /\ ShellDone[1].result = Blocked
  /\ ShellDone[2].check = "noConfirmation"
  /\ ShellDone[2].result.exitCode = 1
  /\ ShellDone[2].result.error = "none"

\* C28: whatever listSessions calls came before it, the first send has
\* resumed the requested session, loaded the skills and registered every
\* supplied tool by the time it makes a backend streaming call.
C28_ListSessionsSkipsNothing ==
  (calls.sends = 1 /\ streamCalls > 0) =>
    /\ skillsLoaded
    /\ \A t \in Tools : t \in Names(registry) /\ calls.register[t] = 1
    /\ ResumeTarget # 0 =>
         /\ calls.resume = 1
         /\ SubSeq(history, 1, Len(ResumedHistory)) = ResumedHistory

\* C29: every tool action run in a round of the current send received a
\* Session Context, the one built for that round of that send (for the
\* round under way: the context the round has just built), although each
\* tool was registered at most once.
C29_ContextOfTheRound ==
  /\ \A t \in Tools : calls.register[t] <= 1
  /\ \A r \in runs :
       /\ r.context # NoCtx
       /\ r.context.sessionId = SessionId
       /\ r.context.send = calls.sends
       /\ r.context.round = r.round
       /\ r.round = ctx.round => r.context = ctx

\* tools ran in two rounds of a send, each with the context of its round
C29_Witness ==
  \E r1, r2 \in runs :
    /\ r1.round = 1
    /\ r2.round = 2
    /\ r1.name = r2.name
    /\ r1.context.round = 1
    /\ r2.context.round = 2
    /\ Len(r1.context.transcript) < Len(r2.context.transcript)

\* the Session Contexts in use in the current send
ContextsInUse == {r.context : r \in runs} \cup ({ctx} \ {NoCtx})

TurnsOfSend(transcript, send) ==
  SelectSeq(transcript, LAMBDA t : IsLiveTurn(t) /\ t.send = send)

\* C30: the transcript of the context of round n is the live conversation
\* as it was when round n's tool execution started, and stays so while the
\* conversation grows: it is the head of the live conversation that ends
\* with the model turn of round n, it holds the prompt and, for every
\* earlier round, the turn that carried that round's results, and nothing
\* of round n's results or of later rounds.
C30_TranscriptSnapshot ==
  \A c \in ContextsInUse :
    LET T == c.transcript
        own == TurnsOfSend(T, c.send)
    IN /\ Len(T) <= Len(history)
       /\ SubSeq(history, 1, Len(T)) = T
       /\ Len(T) > 0
       /\ T[Len(T)].role = "model"
       /\ T[Len(T)].send = c.send
       /\ T[Len(T)].round = c.round
       /\ Len(own) = 2 * c.round
       /\ \A k \in 1..c.round :
            /\ own[2 * k - 1].role = "user"
            /\ own[2 * k - 1].round = k
            /\ own[2 * k].role = "model"
            /\ own[2 * k].round = k
       /\ \A i \in 1..Len(T) :
            (IsLiveTurn(T[i]) /\ T[i].send = c.send) => T[i].round <= c.round

\* the results of round 2 have been appended to the live conversation as
\* the input of round 3; the context of round 2 still ends with round 2's
\* model turn
C30_Witness ==
  /\ streamCalls = 3
  /\ \E r \in runs :
       /\ r.round = 2
       /\ Len(r.context.transcript) = 4
       /\ Len(history) > 4
       /\ history[5].role = "user"
       /\ history[5].round = 3

\* C31: a lookup through the scoped registry built for a context answers as
\* the live registry does, except that a tool implemented here comes back
\* as a copy bound to that context and carrying the same definition; a tool
\* of any other class comes back as the registered object itself; a name the
\* live registry does not know is unknown to both.
C31_ScopedLikeLive ==
  (ran.op = "registry" /\ ran.n > 0) =>
    IF ran.name \notin Names(ran.live)
      THEN ran.direct = NoTool /\ ran.scoped = NoTool
      ELSE /\ ran.direct \in ran.live
           /\ ran.direct.name = ran.name
           /\ IF ran.direct.cls = "SdkTool"
                THEN /\ ran.scoped.cls = "SdkTool"
                     /\ ran.scoped.def = ran.direct.def
                     /\ ran.scoped.name = ran.direct.name
                     /\ ran.scoped.context = ran.context
                     /\ ran.scoped.obj = "copy"
                     /\ ran.scoped \notin ran.live
                ELSE ran.scoped = ran.direct

\* a registry holding a supplied tool and a tool of the core has been asked
\* for its tool of the core through the scoped registry
C31_Witness ==
  /\ ran.op = "registry"
  /\ ran.n = 2
  /\ \E t \in ran.live : t.cls = "SdkTool"
  /\ ran.direct.cls = "CoreTool"
  /\ ran.scoped = ran.direct

\* C32: once the supplied tools are registered, no step of any send changes
\* the live registry, and outside initialize() no step changes it at all:
\* building the scoped registry of a round and running tools through it adds,
\* removes, replaces and rebinds nothing, so the live registry only ever
\* holds the registered objects, bound to no context.
C32_LiveRegistryFrame ==
  [][/\ (pc # "init" \/ Tools \subseteq Names(registry))
          => registry' = registry
     /\ \A t \in registry' : t.context = NoCtx /\ t.obj = "registered"]_vars

\* a second round of a send has run a tool through its scoped registry
C32_Witness ==
  /\ Names(registry) = Tools
  /\ schedCalls >= 2
  /\ \E r \in runs : r.round = 2 /\ r.context # NoCtx

\* C33: a tool of a round that had not completed when the signal of the send
\* fired is cancelled: the sub-agent executor it runs and the shell command
\* it starts through the context watch a signal that has fired.
C33_CancellationReachesTools ==
  \A r \in runs :
    r.fired => r.executorSignal.aborted /\ r.shellSignal.aborted

\* C34: over the invocations of remote sub-agent tools, the protocol client
\* of an agent-card URL is created once, on first use, and later invocations
\* reuse it.
C34_ClientCached ==
  \A i, j \in 1..Len(a2a.created) :
    i # j => a2a.created[i] # a2a.created[j]

\* the result part the scheduler builds for a sub-agent call whose run ended
\* for a reason other than the goal
TerminatedPart(r) ==
  [functionResponse |->
     [id |-> r.callId, name |-> r.name,
      output |-> "Error: Sub-agent \"writer\" terminated: " \o r.reason,
      error |-> "Sub-agent \"writer\" terminated: " \o r.reason]]

PartsOf(req) == {req[i] : i \in 1..Len(req)}

\* C35: when a sub-agent run in a round of the parent's send ends for a
\* reason other than the goal, the send is not aborted by it and the failure
\* is not dropped: the tool result is flagged as an error whose text names
\* the reason, and once the scheduler has settled the round the loop goes on
\* to the next streaming call, whose input holds that result for that call.
C35_NonGoalFedBack ==
  \A r \in runs :
    (r.name \in SubAgentTools /\ r.reason # "GOAL") =>
      /\ r.result.tag = "result"
      /\ r.result.error = TerminatedPart(r).functionResponse.error
      /\ r.result.llmContent = TerminatedPart(r).functionResponse.output
      /\ outcome # "toolError"
      /\ Len(completed) >= r.round =>
           /\ pc = "issue" \/ streamCalls > r.round
           /\ (pc = "issue" /\ streamCalls = r.round)
                => TerminatedPart(r) \in PartsOf(request)
           /\ streamCalls > r.round
                => TerminatedPart(r) \in PartsOf(inputs[r.round + 1])

\* a sub-agent run of round 1 timed out and round 2 was issued with the
\* error result of that call
C35_Witness ==
  /\ streamCalls >= 2
  /\ \E r \in runs :
       /\ r.name = "writer"
       /\ r.round = 1
       /\ r.reason = "TIMEOUT"
       /\ TerminatedPart(r) \in PartsOf(inputs[2])

UserEntries == SelectSeq(stored.messages, LAMBDA m : m.type = "user")

\* the user-role turns of the reconstruction that replay a user entry: all
\* its user-role turns but the response turns of its model entries
ResponseTurnCount ==
  Len(SelectSeq(ModelEntries,
                LAMBDA m : EndsWithResponse(
                             messageRecordsToHistory(<< m >>))))
PromptTurnCount ==
  Len(SelectSeq(derived.history, LAMBDA t : t.role = "user"))
    - ResponseTurnCount

\* the parts a user entry's content is to be replayed with
OpaquePart(content) == [inlineData |-> content.v]
ExpectedUserParts(content) ==
  IF content.k = "string" THEN << [text |-> content.v] >>
  ELSE IF content.k = "array"
    THEN [i \in 1..Len(content.items) |->
            IF content.items[i].k = "string"
              THEN [text |-> content.items[i].v]
              ELSE OpaquePart(content.items[i])]
  ELSE << OpaquePart(content) >>

\* C36 as stated: every user entry gives exactly one user-role turn, whatever
\* its content, and the reconstruction has as many prompt turns as the
\* record has user entries.
C36_AsStated ==
  Reconstructed =>
    /\ \A k \in 1..Len(UserEntries) :
         Len(messageRecordsToHistory(<< UserEntries[k] >>)) = 1
    /\ PromptTurnCount = Len(UserEntries)

\* content that gives no part: an empty string, a missing or null value, an
\* empty sequence
NoContent(content) ==
  \/ content.k \in {"falsy", "null"}
  \/ content.k = "array" /\ content.items = <<>>

\* C36: every user entry whose content is not empty gives exactly one
\* user-role turn: one text part for a bare string, one part per element in
\* order for a sequence, one opaque part for anything else; a user entry
\* with empty content gives no turn; so the reconstruction has as many
\* prompt turns as the record has user entries with content.
C36_UserTurnPerEntry ==
  Reconstructed =>
    /\ \A k \in 1..Len(UserEntries) :
         messageRecordsToHistory(<< UserEntries[k] >>) =
           IF NoContent(UserEntries[k].content) THEN <<>>
           ELSE << [role |-> "user",
                    parts |-> ExpectedUserParts(UserEntries[k].content)] >>
    /\ PromptTurnCount =
         Len(SelectSeq(UserEntries, LAMBDA m : ~NoContent(m.content)))

\* a record of a user entry with a sequence for content and one with no
\* content: one prompt turn of two parts
C36_Witness ==
  /\ Reconstructed
  /\ Len(UserEntries) = 2
  /\ UserEntries[1].content.k = "array"
  /\ Len(UserEntries[1].content.items) = 2
  /\ NoContent(UserEntries[2].content)
  /\ Len(stored.messages) = 2
  /\ derived.history =
       << [role |-> "user",
           parts |-> << [text |-> "see"], [inlineData |-> "img"] >>] >>

\* the tool-call requests the stream of round n delivered, in event order
RequestEventsOf(n) ==
  SelectSeq(delivered, LAMBDA e : e.rnd = n /\ e.type = "ToolCallRequest")

\* the scheduler of this round has been handed its call list
Submitted == pc = "exec"

\* C37: the call list the scheduler of round n is handed has one entry per
\* tool-call request of round n's stream, in event order, each with the id
\* and name of its request and the arguments in structured form (decoded
\* when they arrived as a string); other events give no entry, and no call
\* of an earlier round is in the list.
C37_CallListOfTheRound ==
  Submitted =>
    LET reqs == RequestEventsOf(streamCalls)
    IN /\ Len(toolCalls) = Len(reqs)
       /\ \A i \in 1..Len(reqs) :
            /\ toolCalls[i].callId = reqs[i].id
            /\ toolCalls[i].name = reqs[i].name
            /\ toolCalls[i].args = [enc |-> "object", v |-> reqs[i].args.v]
       /\ \A i \in 1..Len(toolCalls) :
            /\ \A e \in PartsOf(delivered) :
                 e.id = toolCalls[i].callId =>
                   e.rnd = streamCalls /\ e.type = "ToolCallRequest"
            /\ \A k \in 1..Len(completed) :
                 \A j \in 1..Len(completed[k]) :
                   completed[k][j].callId # toolCalls[i].callId

\* round 2's scheduler was handed the one request of round 2, whose
\* arguments arrived as a string, after round 1 had its own request
C37_Witness ==
  /\ Submitted
  /\ streamCalls = 2
  /\ Len(completed) = 1
  /\ Len(toolCalls) = 1
  /\ RequestEventsOf(2)[1].args.enc = "string"
  /\ toolCalls[1].args.enc = "object"

\* a session id was supplied and no listed session record carries it
UnknownSession ==
  /\ options.sessionId # "none"
  /\ \A i \in 1..Len(listSessions(ChatsDir)) :
       listSessions(ChatsDir)[i].sessionId # options.sessionId

\* C38: when the supplied session id is that of no listed record, the
\* lookup raises nothing and nothing is resumed: once credentials and
\* configuration are in place the first send has its skills loaded and its
\* tools registered and is not rejected by initialization, the transcript
\* holds no seeded turn, and the first streaming call is made with the
\* prompt on an empty transcript.
C38_UnknownSessionFresh ==
  UnknownSession =>
    /\ calls.resume = 0
    /\ \A i \in 1..Len(history) : IsLiveTurn(history[i])
    /\ initialized =>
         /\ skillsLoaded
         /\ Names(registry) = Tools
         /\ \A t \in Tools : calls.register[t] = 1
         /\ outcome # "initError"
    /\ (calls.sends = 1 /\ streamCalls >= 1) =>
         /\ initialized
         /\ inputs[1] = << [text |-> "prompt"] >>
         /\ history[1] = [role |-> "user", send |-> 1, round |-> 1,
                           parts |-> 1]

\* the first send of an agent given an unknown session id is streaming
C38_Witness ==
  /\ UnknownSession
  /\ calls.sends = 1
  /\ streamCalls = 1
  /\ pc = "await"
  /\ Names(registry) = Tools
  /\ Len(history) = 1

\* C39: a send in which the resolver raised is rejected having made no
\* streaming call, with no system instruction installed and the
\* instructions still unresolved; a send that finds them unresolved invokes
\* the resolver, so the send after a failed one invokes it again; and the
\* instructions become resolved only in the step in which a resolver call
\* has returned and its text has been installed.
C39_ResolverRaises ==
  /\ [](outcome = "resolverError" =>
          /\ pc = "idle"
          /\ streamCalls = 0
          /\ inputs = <<>>
          /\ ~instructionsLoaded
          /\ systemInstruction # "resolved"
          /\ userMemory # "resolved"
          /\ calls.resolver > calls.resolved)
  /\ [][/\ (pc = "resolve" /\ options.instructions = "function"
              /\ ~instructionsLoaded)
             => calls'.resolver = calls.resolver + 1
        /\ (calls'.resolver # calls.resolver
              /\ calls'.resolved = calls.resolved)
             => /\ outcome' = "resolverError"
                /\ calls'.streams = calls.streams
                /\ systemInstruction' = systemInstruction
                /\ ~instructionsLoaded'
        /\ (instructionsLoaded' /\ ~instructionsLoaded)
             => /\ calls'.resolved = calls.resolved + 1
                /\ calls'.resolver = calls.resolver + 1
                /\ systemInstruction' = "resolved"
                /\ userMemory' = "resolved"]_vars

\* the resolver raised in the first send, was invoked again by the second
\* and returned, and the second send is streaming
C39_Witness ==
  /\ options.instructions = "function"
  /\ calls.sends = 2
  /\ calls.resolver = 2
  /\ calls.resolved = 1
  /\ instructionsLoaded
  /\ streamCalls = 1

\* the model's cap on streaming calls stops the send before its next round
AtStreamCap == pc = "issue" /\ calls.streams = MaxStreams

\* C40: a send ends only by the break after a round that requested no tool,
\* by an error, or because the caller gave it up; the loop has no bound on
\* its rounds: after every round that requested a tool and whose scheduler
\* call settled it goes on to another streaming call, and a send is never
\* done after a round with requests.  Driven on against a backend that
\* requests tools finitely often, with a scheduler that settles, every send
\* comes to an end (or to the cap on streaming calls), and the first send
\* always ends.
C40_Termination ==
  /\ [](outcome \in {"none", "running", "done", "returned", "initError",
                      "resolverError", "streamError", "decodeError",
                      "toolError"})
  /\ [](outcome = "done" =>
          /\ pc = "idle"
          /\ Len(requested) = streamCalls
          /\ streamCalls >= 1
          /\ requested[streamCalls] = 0
          /\ \A n \in 1..(streamCalls - 1) : requested[n] > 0)
  /\ [][/\ (pc = "await" /\ pc' = "sched") => requested'[streamCalls] > 0
        /\ (pc = "exec" /\ pc' # "exec") =>
             \/ pc' = "issue" /\ outcome' = "running"
             \/ pc' = "idle" /\ outcome' = "toolError"]_vars
  /\ (pc # "idle") ~> (pc = "idle" \/ AtStreamCap)
  /\ (pc # "idle" /\ calls.sends = 1) ~> (pc = "idle")

\* a send ended by the break in its third round, after two rounds with a
\* tool-call request each
C40_Witness ==
  /\ outcome = "done"
  /\ streamCalls = 3
  /\ requested = << 1, 1, 0 >>

====
